---- MODULE Spec2Model ----
(***************************************************************************)
(* Gitea Interact: the API configuration store, the worker threads, the    *)
(* file watcher, the Git panels' handlers, the Gitea HTTP client and the   *)
(* settings store, each as a state machine translated from its source.     *)
(* Texts are sequences of tokens, so that strip, rstrip, startswith, split *)
(* and substring tests are computed and not assumed.                       *)
(***************************************************************************)
EXTENDS Integers, Sequences, FiniteSets, TLC

VARIABLES
    \* ---- api_config.py: settings.json and ApiConfigPanel
    api_file,        \* CONFIG_FILE: [exists, valid, has_legacy, server_url, token, has_configs, api_configs]
    current_config,  \* ApiConfigPanel.current_config: <<>> (None) or <<config>>
    config_list,     \* ApiConfigPanel.config_list: the items' UserRole data
    name_input,      \* ApiConfigPanel.name_input text
    server_input,    \* ApiConfigPanel.server_input text
    token_input,     \* ApiConfigPanel.token_input text
    api_dialog       \* title of the last QMessageBox the panel showed, "" if none

apiVars == <<api_file, current_config, config_list, name_input, server_input, token_input, api_dialog>>

VARIABLES
    \* ---- git_operations.py / git_logs_viewer.py: one worker thread's run
    thr_kind,        \* "GitLogThread", "GitLogsThread", "GitPushThread", "" before any start
    thr_pc,          \* the run's position
    thr_signals,     \* the signals the run emitted so far, in order
    thr_branches,    \* repo.branches, in the repository's order
    thr_head,        \* the branch HEAD is attached to, Detached otherwise
    thr_ahead        \* len(commits_ahead) once GitPushThread computed it

thrVars == <<thr_kind, thr_pc, thr_signals, thr_branches, thr_head, thr_ahead>>

VARIABLES
    \* ---- window.py: RepoWindow's editor state and the watchdog observer thread
    modified_items,  \* RepoWindow.modified_items: the paths marked modified
    unsaved_items,   \* RepoWindow.unsaved_items: the paths with unsaved edits
    current_file,    \* RepoWindow.current_file, NoneFile when None
    viewer_text,     \* self.text_viewer.toPlainText()
    disk,            \* the content of each file on disk
    tree_marks,      \* the colour each tree item carries
    expand_todo,     \* on_item_expanded's loop: the children not yet added
    accessed,        \* per field of RepoWindow, the threads that read or wrote it
    win_dialog,      \* title of the last QMessageBox RepoWindow showed
    win_click        \* the last on_item_clicked on a file: what it found and what it left

winVars == <<modified_items, unsaved_items, current_file, viewer_text, disk, tree_marks,
             expand_todo, accessed, win_dialog, win_click>>

VARIABLES
    \* ---- git_operations.py: GitOperationsPanel
    gp_has_repo,       \* self.git_repo is not None
    status_list,       \* the rows of self.status_list, each a text
    status_current,    \* index of status_list.currentItem(), 0 when None
    commit_hash_input, \* self.commit_hash_input text
    commit_message,    \* self.commit_message text
    max_commits_ok,    \* self.max_commits_input holds an integer (or is empty)
    continue_visible,  \* self.continue_revert_btn.isVisible()
    gp_cmds,           \* the Git commands the last handler invocation ran, in order
    gp_dialogs,        \* the dialogs the last handler invocation showed, in order
    gp_raised,         \* an exception left the last handler invocation
    gp_last            \* the last handler invocation: its name and what the user and Git answered

gpVars == <<gp_has_repo, status_list, status_current, commit_hash_input, commit_message,
            max_commits_ok, continue_visible, gp_cmds, gp_dialogs, gp_raised, gp_last>>

VARIABLES
    \* ---- window.py: RepoWindow's Git menu
    rp_git,            \* the repository on disk: HEAD, branches, origin's refs, ahead and behind, dirty
    rp_run,            \* the last handler invocation: commands run, dialogs shown, buttons picked
    rp_before          \* the repository before that invocation, and whether the one before it reset the branch

rpVars == <<rp_git, rp_run, rp_before>>

VARIABLES
    \* ---- api_config.py test_connection, user_manager.py fetch_repos,
    \* ---- git_logs_viewer.py abort_previous_operation
    username_input,    \* UserManagerDialogue.username_input text
    selected_config,   \* UserManagerDialogue.selected_config: <<>> for None, else <<config>>
    io_run             \* the last handler invocation: requests sent, answers, commands, label, dialogs

ioVars == <<username_input, selected_config, io_run>>

VARIABLES
    \* ---- settings.py SettingsPanel, main.py MainWindow
    settings_file,       \* ~/.gitea_interact_settings.json
    panel_settings,      \* SettingsPanel.settings
    fullscreen_checkbox, \* fullscreen_checkbox.isChecked()
    theme_combo,         \* theme_combo.currentIndex()
    main_settings,       \* MainWindow.settings
    st_last              \* the last handler invocation: its name, the reply, whether a save failed

stVars == <<settings_file, panel_settings, fullscreen_checkbox, theme_combo, main_settings, st_last>>

VARIABLES
    \* ---- repo_utils.py, repo_manager.py AddRepoPanel, user_manager.py download_selected
    base_dir,          \* the names of the directories in ~/Gitea Repos
    repo_storage,      \* ~/.gitea_repos.json
    panel_repo_list,   \* AddRepoPanel.repo_list
    rm_last            \* the last handler invocation: its name, how it ended, the signals emitted

rmVars == <<base_dir, repo_storage, panel_repo_list, rm_last>>

VARIABLES
    \* ---- git_logs_viewer.py GitLogsViewer over one repository
    rv_git,            \* the repository: branch tips, HEAD, the porcelain codes, the operation under way
    rv_file,           \* whether the viewer was opened on one file (file_path)
    current_commits,   \* GitLogsViewer.current_commits, the commits listed
    selected_commit,   \* GitLogsViewer.selected_commit, "" for None
    rv_loading,        \* a GitLogsThread was started and its logs_ready is not yet delivered
    rv_last            \* the last button handler: its dialogs and Git commands in order, the state before

rvVars == <<rv_git, rv_file, current_commits, selected_commit, rv_loading, rv_last>>

VARIABLES
    \* ---- git_operations.py: GitOperationsPanel's push section
    pb_git_repo,           \* self.git_repo is not None
    remote_text,           \* remote_combo.currentText()
    branch_text,           \* branch_combo.currentText()
    push_btn_enabled,      \* push_btn.isEnabled()
    push_btn_text,         \* push_btn.text()
    push_progress_visible, \* push_progress.isVisible()
    pb_running,            \* the GitPushThreads whose run has not returned
    pb_seen,               \* how many signals of the push thread the panel's slots have handled
    pb_last                \* the last call of push_changes or of a slot, and whether it started a thread

pbVars == <<pb_git_repo, remote_text, branch_text, push_btn_enabled, push_btn_text,
            push_progress_visible, pb_running, pb_seen, pb_last>>

VARIABLES
    \* ---- git_operations.py / git_logs_viewer.py: the log refresh and its worker threads
    lg_panel,          \* the widget: "GitOperationsPanel" or "GitLogsViewer"
    lg_repo_path,      \* self.repo_path
    lg_git_repo,       \* the path self.git_repo was opened on, "" for None
    max_commits_input, \* max_commits_input.text() (GitOperationsPanel)
    lg_commits,        \* the repositories on disk: how many commits HEAD's history has
    lg_threads,        \* every GitLogThread / GitLogsThread started, in the order of the requests
    lg_events,         \* the GUI thread's event queue: the queued signals of the threads
    log_display,       \* the commits shown in log_display / commits_list
    lg_shown,          \* the request whose result is shown, 0 for none
    lg_before,         \* the request whose result was shown before the last slot ran
    lg_overlap,        \* a refresh was requested while an earlier one had not been displayed
    lg_crashed         \* Qt aborted the process: a QThread was destroyed while running

lgVars == <<lg_panel, lg_repo_path, lg_git_repo, max_commits_input, lg_commits, lg_threads, lg_events,
            log_display, lg_shown, lg_before, lg_overlap, lg_crashed>>

VARIABLES
    \* ---- git_operations.py: the repository behind GitOperationsPanel
    rb_revert   \* its revert: "none", "stopped" at a conflict, or "awaiting" Continue Revert

rbVars == <<rb_revert>>

vars == <<apiVars, thrVars, winVars, gpVars, rpVars, ioVars, stVars, rmVars, rvVars, pbVars, lgVars, rbVars>>

notApi == <<thrVars, winVars, gpVars, rpVars, ioVars, stVars, rmVars, rvVars, pbVars, lgVars, rbVars>>
notThr == <<apiVars, winVars, gpVars, rpVars, ioVars, stVars, rmVars, rvVars, pbVars, lgVars, rbVars>>
notWin == <<apiVars, thrVars, gpVars, rpVars, ioVars, stVars, rmVars, rvVars, pbVars, lgVars, rbVars>>
notGp == <<apiVars, thrVars, winVars, rpVars, ioVars, stVars, rmVars, rvVars, pbVars, lgVars, rbVars>>
notRp == <<apiVars, thrVars, winVars, gpVars, ioVars, stVars, rmVars, rvVars, pbVars, lgVars, rbVars>>
notIo == <<thrVars, winVars, gpVars, rpVars, stVars, rmVars, rvVars, pbVars, lgVars, rbVars>>
notSt == <<apiVars, thrVars, winVars, gpVars, rpVars, ioVars, rmVars, rvVars, pbVars, lgVars, rbVars>>
notRm == <<apiVars, thrVars, winVars, gpVars, rpVars, ioVars, stVars, rvVars, pbVars, lgVars, rbVars>>
notRv == <<apiVars, thrVars, winVars, gpVars, rpVars, ioVars, stVars, rmVars, pbVars, lgVars, rbVars>>
notPush == <<apiVars, winVars, gpVars, rpVars, ioVars, stVars, rmVars, rvVars, lgVars, rbVars>>
notLg == <<apiVars, thrVars, winVars, gpVars, rpVars, ioVars, stVars, rmVars, rvVars, pbVars, rbVars>>
notRb == <<apiVars, thrVars, winVars, gpVars, rpVars, ioVars, stVars, rmVars, rvVars, pbVars, lgVars>>

(***************************************************************************)
(* Texts                                                                   *)
(***************************************************************************)

\* str.strip(): leading and trailing blanks removed
RECURSIVE LStrip(_)
LStrip(t) == IF t # <<>> /\ Head(t) = " " THEN LStrip(Tail(t)) ELSE t

RECURSIVE RStrip(_, _)
RStrip(t, ch) == IF t # <<>> /\ t[Len(t)] = ch THEN RStrip(SubSeq(t, 1, Len(t) - 1), ch) ELSE t

Strip(t) == RStrip(LStrip(t), " ")

\* server.startswith(('http://', 'https://'))
HasScheme(t) == t # <<>> /\ Head(t) \in {"http://", "https://"}

\* the URL clean-up every caller applies: default scheme, no trailing slash
NormalizeServer(t) == RStrip(IF HasScheme(t) THEN t ELSE <<"https://">> \o t, "/")

(***************************************************************************)
(* api_config.py                                                           *)
(***************************************************************************)

MaxConfigs == 2

NameTexts == {<<>>, <<" ">>, <<"a">>, <<"a", " ">>, <<"b">>}
ServerTexts == {<<>>, <<"h">>, <<"http://", "h", "/">>}
TokenTexts == {<<>>, <<"t">>}

Config(n, s, t) == [name |-> n, server_url |-> s, token |-> t]

NoFile == [exists |-> FALSE, valid |-> FALSE, has_legacy |-> FALSE, server_url |-> <<>>,
           token |-> <<>>, has_configs |-> FALSE, api_configs |-> <<>>]

JsonFile(legacy, url, tok, hasc, cfgs) ==
    [exists |-> TRUE, valid |-> TRUE, has_legacy |-> legacy, server_url |-> url,
     token |-> tok, has_configs |-> hasc, api_configs |-> cfgs]

CorruptFile == [NoFile EXCEPT !.exists = TRUE]

\* the dict load_api_settings returns, as a file image; {} is a valid file with no keys
NeedsMigration(f) == f.exists /\ f.valid /\ f.has_legacy /\ ~f.has_configs

Migrated(f) ==
    [f EXCEPT !.has_configs = TRUE,
              !.api_configs = <<Config(<<"Default Server">>, f.server_url, f.token)>>]

load_api_settings_data(f) ==
    IF ~f.exists THEN JsonFile(FALSE, <<>>, <<>>, TRUE, <<>>)
    ELSE IF ~f.valid THEN JsonFile(FALSE, <<>>, <<>>, FALSE, <<>>)
    ELSE IF NeedsMigration(f) THEN Migrated(f)
    ELSE f

\* the file after load_api_settings: the migration is saved
load_api_settings_file(f) == IF NeedsMigration(f) THEN Migrated(f) ELSE f

\* settings.get("api_configs", [])
get_api_configs(f) == load_api_settings_data(f).api_configs

\* a save_api_settings that leaves an empty list out of the file
save_api_settingsDropsEmpty(settings, configs) ==
    [settings EXCEPT !.exists = TRUE, !.valid = TRUE, !.has_configs = (configs # <<>>),
                     !.api_configs = configs]

\* settings["api_configs"] = configs; save_api_settings(settings)
save_api_settings(settings, configs) ==
    [settings EXCEPT !.exists = TRUE, !.valid = TRUE, !.has_configs = TRUE, !.api_configs = configs]

Names(cfgs) == {cfgs[i].name : i \in DOMAIN cfgs}

UniqueNames(cfgs) == \A i, j \in DOMAIN cfgs : cfgs[i].name = cfgs[j].name => i = j

\* index of the first configuration named n, 0 if none
FirstNamed(cfgs, n) ==
    IF n \in Names(cfgs) THEN CHOOSE i \in DOMAIN cfgs : cfgs[i].name = n /\ \A j \in 1..(i - 1) : cfgs[j].name # n
    ELSE 0

\* [c for c in configs if c.get('name') != name]
RECURSIVE WithoutName(_, _)
WithoutName(cfgs, n) ==
    IF cfgs = <<>> THEN <<>>
    ELSE IF Head(cfgs).name = n THEN WithoutName(Tail(cfgs), n)
    ELSE <<Head(cfgs)>> \o WithoutName(Tail(cfgs), n)

\* the update branch guards nothing: the selected entry takes the new name as typed
UpdateExisting(cfgs, cur, new) ==
    LET i == FirstNamed(cfgs, cur.name) IN IF i = 0 THEN cfgs ELSE [cfgs EXCEPT ![i] = new]

ApiInit ==
    /\ api_file \in {NoFile, CorruptFile,
                     JsonFile(FALSE, <<>>, <<>>, TRUE, <<>>),
                     JsonFile(TRUE, <<"https://", "h">>, <<"t">>, FALSE, <<>>),
                     JsonFile(FALSE, <<>>, <<>>, TRUE, <<Config(<<"a">>, <<"https://", "h">>, <<"t">>)>>)}
    /\ current_config = <<>>
    /\ config_list = <<>>
    /\ name_input = <<>>
    /\ server_input = <<>>
    /\ token_input = <<>>
    /\ api_dialog = ""

ApiIdle ==
    /\ api_file = NoFile
    /\ current_config = <<>>
    /\ config_list = <<>>
    /\ name_input = <<>>
    /\ server_input = <<>>
    /\ token_input = <<>>
    /\ api_dialog = ""

\* ApiConfigPanel.__init__ / load_configurations: the list is rebuilt from the file
load_configurations ==
    /\ config_list' = get_api_configs(api_file)
    /\ api_file' = load_api_settings_file(api_file)
    /\ api_dialog' = ""
    /\ UNCHANGED <<current_config, name_input, server_input, token_input>>

on_config_selected(i) ==
    /\ i \in DOMAIN config_list
    /\ current_config' = <<config_list[i]>>
    /\ name_input' = config_list[i].name
    /\ server_input' = config_list[i].server_url
    /\ token_input' = config_list[i].token
    /\ api_dialog' = ""
    /\ UNCHANGED <<api_file, config_list>>

add_new_config ==
    /\ current_config' = <<>>
    /\ name_input' = <<>>
    /\ server_input' = <<>>
    /\ token_input' = <<>>
    /\ api_dialog' = ""
    /\ UNCHANGED <<api_file, config_list>>

\* the user types into the three line edits
edit_inputs(n, s, t) ==
    /\ name_input' = n
    /\ server_input' = s
    /\ token_input' = t
    /\ api_dialog' = ""
    /\ UNCHANGED <<api_file, current_config, config_list>>

remove_config(yes) ==
    IF current_config = <<>> THEN
        /\ api_dialog' = "No Selection"
        /\ UNCHANGED <<api_file, current_config, config_list, name_input, server_input, token_input>>
    ELSE IF ~yes THEN
        /\ api_dialog' = "Confirm Removal"
        /\ UNCHANGED <<api_file, current_config, config_list, name_input, server_input, token_input>>
    ELSE
        LET settings == load_api_settings_data(api_file)
            configs == WithoutName(settings.api_configs, current_config[1].name)
        IN /\ api_file' = save_api_settings(settings, configs)
           /\ config_list' = configs
           /\ current_config' = <<>>
           /\ name_input' = <<>>
           /\ server_input' = <<>>
           /\ token_input' = <<>>
           /\ api_dialog' = "Confirm Removal"

save_configuration ==
    LET name == Strip(name_input)
        server == NormalizeServer(Strip(server_input))
        token == Strip(token_input)
        settings == load_api_settings_data(api_file)
        configs == settings.api_configs
        new == Config(name, server, token)
        saved == IF current_config # <<>> THEN UpdateExisting(configs, current_config[1], new)
                 ELSE Append(configs, new)
        sel == FirstNamed(saved, name)
    IN IF name = <<>> \/ Strip(server_input) = <<>> \/ token = <<>> THEN
           /\ api_dialog' = "Error"
           /\ UNCHANGED <<api_file, current_config, config_list, name_input, server_input, token_input>>
       ELSE IF current_config = <<>> /\ name \in Names(configs) THEN
           /\ api_dialog' = "Error"
           /\ api_file' = load_api_settings_file(api_file)
           /\ UNCHANGED <<current_config, config_list, name_input, server_input, token_input>>
       ELSE
           /\ Len(saved) <= MaxConfigs
           /\ api_file' = save_api_settings(settings, saved)
           /\ config_list' = saved
           /\ IF sel # 0
              THEN /\ current_config' = <<saved[sel]>>
                   /\ name_input' = saved[sel].name
                   /\ server_input' = saved[sel].server_url
                   /\ token_input' = saved[sel].token
              ELSE UNCHANGED <<current_config, name_input, server_input, token_input>>
           /\ api_dialog' = "Saved"

ApiNext ==
    \/ load_configurations /\ UNCHANGED notApi
    \/ \E i \in 1..MaxConfigs : on_config_selected(i) /\ UNCHANGED notApi
    \/ add_new_config /\ UNCHANGED notApi
    \/ \E n \in NameTexts, s \in ServerTexts, t \in TokenTexts : edit_inputs(n, s, t) /\ UNCHANGED notApi
    \/ \E yes \in BOOLEAN : remove_config(yes) /\ UNCHANGED notApi
    \/ save_configuration /\ UNCHANGED notApi

(***************************************************************************)
(* Error texts: str(e) as the set of phrases it contains                   *)
(***************************************************************************)

\* str.lower() on one phrase
LowerOf(p) ==
    CASE p = "Rejected" -> "rejected"
      [] p = "CONFLICT" -> "conflict"
      [] p = "Conflict" -> "conflict"
      [] p = "Merge conflict" -> "merge conflict"
      [] p = "No Upstream Branch" -> "no upstream branch"
      [] OTHER -> p

Lower(msg) == {LowerOf(p) : p \in msg}

\* needle in text; "merge conflict" has "conflict" inside it
Contains(msg, p) == \E q \in msg : p = q \/ (p = "conflict" /\ q = "merge conflict")

(***************************************************************************)
(* git_operations.py GitLogThread, GitPushThread; git_logs_viewer.py       *)
(* GitLogsThread                                                           *)
(***************************************************************************)

Detached == "(detached)"

BranchLists == {<<>>, <<"dev">>, <<"dev", "main">>, <<"dev", "master">>, <<"main", "master">>}

Range(q) == {q[i] : i \in DOMAIN q}

MaxAhead == 2

PushErrTexts == {{}, {"no upstream branch"}, {"No Upstream Branch"}, {"non-fast-forward"},
                 {"rejected"}, {"Rejected"}, {"rejected", "no upstream branch"},
                 {"non-fast-forward", "rejected"}}

Signal(name, text) == [sig |-> name, text |-> text]

Terminal == {"log_ready", "logs_ready", "error_occurred", "push_completed", "push_failed"}

Emit(name, text) == thr_signals' = Append(thr_signals, Signal(name, text))

ThrInit ==
    /\ thr_kind = ""
    /\ thr_pc = "idle"
    /\ thr_signals = <<>>
    /\ thr_branches \in BranchLists
    /\ thr_head \in Range(thr_branches) \cup {Detached}
    /\ thr_ahead = 0

ThrIdle ==
    /\ thr_kind = ""
    /\ thr_pc = "idle"
    /\ thr_signals = <<>>
    /\ thr_branches = <<>>
    /\ thr_head = Detached
    /\ thr_ahead = 0

\* QThread.start() on a fresh thread object
thread_start(kind) ==
    /\ thr_pc \in {"idle", "finished"}
    /\ thr_kind' = kind
    /\ thr_pc' = "run"
    /\ thr_signals' = <<>>
    /\ thr_ahead' = 0
    /\ UNCHANGED <<thr_branches, thr_head>>

\* GitLogThread.run: Repo(path) and iter_commits either yield the list or raise
GitLogThread_run(ok) ==
    /\ thr_kind = "GitLogThread" /\ thr_pc = "run"
    /\ IF ok THEN Emit("log_ready", "commits") ELSE Emit("error_occurred", "str(e)")
    /\ thr_pc' = "finished"
    /\ UNCHANGED <<thr_kind, thr_branches, thr_head, thr_ahead>>

\* the branch GitLogsThread.run lists the history of
MainBranch(branches, head) ==
    IF "main" \in Range(branches) THEN "main"
    ELSE IF "master" \in Range(branches) THEN "master"
    ELSE IF head # Detached THEN head
    ELSE IF branches # <<>> THEN branches[1]
    ELSE "HEAD"

GitLogsThread_run(ok) ==
    /\ thr_kind = "GitLogsThread" /\ thr_pc = "run"
    /\ IF ok THEN Emit("logs_ready", MainBranch(thr_branches, thr_head))
       ELSE Emit("error_occurred", "str(e)")
    /\ thr_pc' = "finished"
    /\ UNCHANGED <<thr_kind, thr_branches, thr_head, thr_ahead>>

\* GitPushThread.run, line 57
GitPushThread_init ==
    /\ thr_kind = "GitPushThread" /\ thr_pc = "run"
    /\ Emit("progress_update", "Initializing push...")
    /\ thr_pc' = "check"
    /\ UNCHANGED <<thr_kind, thr_branches, thr_head, thr_ahead>>

\* what the inner handler does with str(e): "completed", "failed" or "raise"
ClassifyPushError(msg) ==
    IF Contains(Lower(msg), "no upstream branch") THEN "completed"
    ELSE IF Contains(msg, "non-fast-forward") \/ Contains(msg, "rejected") THEN "failed"
    ELSE "raise"

\* lines 80-90: the inner handler, and the outer one for what it re-raises
PushThreadError(msg) ==
    /\ CASE ClassifyPushError(msg) = "completed" ->
                Emit("push_completed", "No remote repository configured for this branch")
         [] ClassifyPushError(msg) = "failed" -> Emit("push_failed", "Push rejected")
         [] ClassifyPushError(msg) = "raise" -> Emit("push_failed", "Push failed")
    /\ thr_pc' = "finished"

\* where the run goes once it found nothing to push (line 67: return)
AfterNothingToPushFallsThrough == "push"

AfterNothingToPush == "finished"

\* lines 61-72: active_branch, the commits ahead, the two progress messages
GitPushThread_check(ok, n, msg) ==
    /\ thr_kind = "GitPushThread" /\ thr_pc = "check"
    /\ IF thr_head = Detached THEN
           \* active_branch raises TypeError, whose text has none of the phrases
           PushThreadError({}) /\ UNCHANGED thr_ahead
       ELSE IF ~ok THEN
           PushThreadError(msg) /\ UNCHANGED thr_ahead
       ELSE IF n = 0 THEN
           /\ Emit("push_completed", "No changes to push to the server")
           /\ thr_pc' = AfterNothingToPush
           /\ thr_ahead' = 0
       ELSE
           /\ thr_signals' = thr_signals \o <<Signal("progress_update", "Found commits to push..."),
                                               Signal("progress_update", "Connecting to remote repository...")>>
           /\ thr_pc' = "push"
           /\ thr_ahead' = n
    /\ UNCHANGED <<thr_kind, thr_branches, thr_head>>

\* lines 75-78: git push, then the two closing signals
GitPushThread_push(ok, msg) ==
    /\ thr_kind = "GitPushThread" /\ thr_pc = "push"
    /\ IF ok THEN
           /\ thr_signals' = thr_signals \o <<Signal("progress_update", "Push completed successfully!"),
                                               Signal("push_completed", "Successfully pushed")>>
           /\ thr_pc' = "finished"
       ELSE PushThreadError(msg)
    /\ UNCHANGED <<thr_kind, thr_branches, thr_head, thr_ahead>>

\* the repository changes between runs: branches come and go, HEAD moves
repo_changes(branches, head) ==
    /\ thr_pc \in {"idle", "finished"}
    /\ head \in Range(branches) \cup {Detached}
    /\ thr_branches' = branches
    /\ thr_head' = head
    /\ UNCHANGED <<thr_kind, thr_pc, thr_signals, thr_ahead>>

ThrNext ==
    \/ \E k \in {"GitLogThread", "GitLogsThread", "GitPushThread"} : thread_start(k) /\ UNCHANGED notThr
    \/ \E ok \in BOOLEAN : GitLogThread_run(ok) /\ UNCHANGED notThr
    \/ \E ok \in BOOLEAN : GitLogsThread_run(ok) /\ UNCHANGED notThr
    \/ GitPushThread_init /\ UNCHANGED notThr
    \/ \E ok \in BOOLEAN, n \in 0..MaxAhead, msg \in PushErrTexts : GitPushThread_check(ok, n, msg) /\ UNCHANGED notThr
    \/ \E ok \in BOOLEAN, msg \in PushErrTexts : GitPushThread_push(ok, msg) /\ UNCHANGED notThr
    \/ \E b \in BranchLists, h \in {"dev", "main", "master", Detached} : repo_changes(b, h) /\ UNCHANGED notThr

(***************************************************************************)
(* window.py: RepoChangeHandler and RepoWindow's file handling             *)
(***************************************************************************)

Files == {"f1", "f2"}

NoneFile == ""

Contents == {"", "v1", "v2"}

Fields == {"modified_items", "unsaved_items", "current_file"}

Touch(thread, fields) ==
    accessed' = [f \in Fields |-> IF f \in fields THEN accessed[f] \cup {thread} ELSE accessed[f]]

\* one on_item_clicked on a file: whether 'Save now?' was asked, answered Yes and the write went
\* through; whether the previous file then holds the text its editor had and is still in
\* unsaved_items; whether the clicked file is another one whose content changed; the files written
Click(asked, yes, ok, holds_edits, still_unsaved, clicked_changed, written) ==
    [asked |-> asked, yes |-> yes, ok |-> ok, holds_edits |-> holds_edits,
     still_unsaved |-> still_unsaved, clicked_changed |-> clicked_changed, written |-> written]

NoClick == Click(FALSE, FALSE, FALSE, FALSE, FALSE, FALSE, {})

WinInit ==
    /\ modified_items = {}
    /\ unsaved_items = {}
    /\ current_file = NoneFile
    /\ viewer_text = ""
    /\ disk \in [Files -> {"v1"}]
    /\ tree_marks = [f \in Files |-> "unlisted"]
    /\ expand_todo = <<>>
    /\ accessed = [f \in Fields |-> {}]
    /\ win_dialog = ""
    /\ win_click = NoClick

WinIdle == WinInit

\* RepoWindow.mark_modified, on whichever thread calls it
mark_modified(thread, path) ==
    /\ modified_items' = modified_items \cup {path}
    /\ Touch(thread, {"modified_items"})

\* RepoChangeHandler.on_any_event: watchdog calls it on the observer's thread
on_any_event(path, is_directory) ==
    /\ IF is_directory THEN UNCHANGED <<modified_items, accessed>>
       ELSE mark_modified("observer", path)
    /\ UNCHANGED <<unsaved_items, current_file, viewer_text, disk, tree_marks, expand_todo, win_dialog, win_click>>

\* on_item_expanded up to its loop: the "Loading..." child goes, the children are listed sorted
on_item_expanded ==
    /\ expand_todo = <<>>
    /\ \A f \in Files : tree_marks[f] = "unlisted"
    /\ expand_todo' = <<"f1", "f2">>
    /\ UNCHANGED <<modified_items, unsaved_items, current_file, viewer_text, disk, tree_marks,
                   accessed, win_dialog, win_click>>

\* the colour of a new child item: apply_highlight, then apply_unsaved over it
ChildMark(path) ==
    IF path \in unsaved_items THEN "unsaved"
    ELSE IF path \in modified_items THEN "modified"
    ELSE "plain"

\* one turn of on_item_expanded's loop (lines 427-442)
on_item_expanded_child ==
    /\ expand_todo # <<>>
    /\ tree_marks' = [tree_marks EXCEPT ![Head(expand_todo)] = ChildMark(Head(expand_todo))]
    /\ expand_todo' = Tail(expand_todo)
    /\ Touch("ui", {"modified_items", "unsaved_items"})
    /\ UNCHANGED <<modified_items, unsaved_items, current_file, viewer_text, disk, win_dialog, win_click>>

\* update_tree_item_color: only an item the tree already lists is recoloured
Recolour(marks, path, colour) ==
    IF marks[path] = "unlisted" THEN marks ELSE [marks EXCEPT ![path] = colour]

\* the user edits the text shown; textChanged runs mark_unsaved
mark_unsaved(text) ==
    /\ expand_todo = <<>>
    /\ current_file # NoneFile
    /\ text # viewer_text
    /\ viewer_text' = text
    /\ unsaved_items' = unsaved_items \cup {current_file}
    /\ tree_marks' = IF current_file \in unsaved_items THEN tree_marks
                     ELSE Recolour(tree_marks, current_file, "unsaved")
    /\ Touch("ui", {"current_file", "unsaved_items"})
    /\ UNCHANGED <<modified_items, current_file, disk, expand_todo, win_dialog, win_click>>

\* save_current_file for a text file: what it leaves on disk, in unsaved_items and in the tree
SavedDisk(text, ok) == IF ok THEN [disk EXCEPT ![current_file] = text] ELSE disk

SavedUnsaved(ok) == IF ok THEN unsaved_items \ {current_file} ELSE unsaved_items

SavedMarks(ok) == IF ok THEN Recolour(tree_marks, current_file, "plain") ELSE tree_marks

save_current_file(ok) ==
    /\ expand_todo = <<>>
    /\ IF current_file = NoneFile THEN
           UNCHANGED <<unsaved_items, disk, tree_marks, win_dialog>>
       ELSE
           /\ disk' = SavedDisk(viewer_text, ok)
           /\ unsaved_items' = SavedUnsaved(ok)
           /\ tree_marks' = SavedMarks(ok)
           /\ win_dialog' = IF ok THEN "Success" ELSE "Save Error"
    /\ Touch("ui", {"current_file", "unsaved_items"})
    /\ UNCHANGED <<modified_items, current_file, viewer_text, expand_todo, win_click>>

\* on_item_clicked on a directory item: the welcome panel, no current file
on_item_clicked_dir ==
    /\ expand_todo = <<>>
    /\ current_file' = NoneFile
    /\ Touch("ui", {"current_file"})
    /\ UNCHANGED <<modified_items, unsaved_items, viewer_text, disk, tree_marks, expand_todo, win_dialog, win_click>>

\* on_item_clicked on a text file: self.text_viewer is the new panel's empty editor from
\* line 461 on, so the save offered at line 469 writes that editor's text
on_item_clicked(path, yes, ok) ==
    /\ expand_todo = <<>>
    /\ LET ask == current_file # NoneFile /\ current_file \in unsaved_items
           save == ask /\ yes
       IN /\ disk' = IF save THEN SavedDisk("", ok) ELSE disk
          /\ unsaved_items' = IF save THEN SavedUnsaved(ok) ELSE unsaved_items
          /\ tree_marks' = IF save THEN SavedMarks(ok) ELSE tree_marks
          /\ win_dialog' = IF save THEN (IF ok THEN "Success" ELSE "Save Error")
                           ELSE IF ask THEN "Unsaved Changes" ELSE win_dialog
          /\ current_file' = path
          /\ viewer_text' = disk'[path]
          /\ win_click' = Click(ask, save, save /\ ok,
                                 ask /\ disk'[current_file] = viewer_text,
                                 current_file \in unsaved_items',
                                 path # current_file /\ disk'[path] # disk[path],
                                 {f \in Files : disk'[f] # disk[f]})
    /\ Touch("ui", {"current_file", "unsaved_items"})
    /\ UNCHANGED <<modified_items, expand_todo>>

\* force_refresh_tree: the tree is rebuilt collapsed
force_refresh_tree ==
    /\ expand_todo = <<>>
    /\ tree_marks' = [f \in Files |-> "unlisted"]
    /\ UNCHANGED <<modified_items, unsaved_items, current_file, viewer_text, disk, expand_todo,
                   accessed, win_dialog, win_click>>

WinNext ==
    \/ \E p \in Files, d \in BOOLEAN : on_any_event(p, d) /\ UNCHANGED notWin
    \/ on_item_expanded /\ UNCHANGED notWin
    \/ on_item_expanded_child /\ UNCHANGED notWin
    \/ \E t \in Contents : mark_unsaved(t) /\ UNCHANGED notWin
    \/ \E ok \in BOOLEAN : save_current_file(ok) /\ UNCHANGED notWin
    \/ on_item_clicked_dir /\ UNCHANGED notWin
    \/ \E p \in Files, yes \in BOOLEAN, ok \in BOOLEAN : on_item_clicked(p, yes, ok) /\ UNCHANGED notWin
    \/ force_refresh_tree /\ UNCHANGED notWin

(***************************************************************************)
(* git_operations.py: GitOperationsPanel                                   *)
(***************************************************************************)

\* file names and porcelain lines, character by character: "XY name"
F1 == <<"a", "1">>
F2 == <<"b", "2">>

PorcelainLine(x, y, name) == <<x, y, " ">> \o name

\* what git status --porcelain can print
PorcelainOutputs ==
    {<<>>,
     <<PorcelainLine(" ", "M", F1)>>,
     <<PorcelainLine("?", "?", F1), PorcelainLine(" ", "M", F2)>>,
     <<PorcelainLine("A", " ", F1), PorcelainLine("D", " ", F2)>>}

\* status.strip().split('\n'): the first line loses its leading blanks
StrippedLines(out) == IF out = <<>> THEN <<>> ELSE <<LStrip(out[1])>> \o Tail(out)

\* line[a:] in Python, for a 0-based a
From(t, a) == SubSeq(t, a + 1, Len(t))

\* the list row refresh_git_status makes of one line
StatusRow(line) ==
    LET status_code == SubSeq(line, 1, 2)
        filename == From(line, 3)
    IN CASE status_code[1] = "M" -> <<"Modified", ": ">> \o filename
         [] status_code[1] = "A" -> <<"Added", ": ">> \o filename
         [] status_code[1] = "D" -> <<"Deleted", ": ">> \o filename
         [] status_code[1] = "?" -> <<"Untracked", ": ">> \o filename
         [] OTHER -> status_code \o <<": ">> \o filename

CleanRow == <<"Working directory clean">>

\* for line in ...: if line: addItem(...)
StatusRows(out) ==
    IF StrippedLines(out) = <<>> THEN <<CleanRow>>
    ELSE LET lines == SelectSeq(StrippedLines(out), LAMBDA l : l # <<>>)
         IN [i \in DOMAIN lines |-> StatusRow(lines[i])]

\* text.split(sep, 1)
SplitOnce(t, sep) ==
    IF \E i \in DOMAIN t : t[i] = sep
    THEN LET i == CHOOSE k \in DOMAIN t : t[k] = sep /\ \A j \in 1..(k - 1) : t[j] # sep
         IN <<SubSeq(t, 1, i - 1), From(t, i)>>
    ELSE <<t>>

Dlg(kind, title, err, choices) == [kind |-> kind, title |-> title, err |-> err, choices |-> choices]

\* show_error / show_success / QMessageBox.question
show_error(text, err) == Dlg("warning", text, err, {})
show_success(text) == Dlg("information", text, <<>>, {})
Question(title) == Dlg("question", title, <<>>, {"Yes", "No"})

HashTexts == {<<>>, <<" ">>, <<"c", "1">>}

ConflictErrTexts == {{"CONFLICT"}, {"conflict"}, {"Conflict"}, {"could not revert"}}

Invocation(handler, yes, ok, msg, choice) ==
    [handler |-> handler, yes |-> yes, ok |-> ok, msg |-> msg, choice |-> choice]

GpInit ==
    /\ gp_has_repo = FALSE
    /\ status_list = <<>>
    /\ status_current = 0
    /\ commit_hash_input = <<>>
    /\ commit_message = <<>>
    /\ max_commits_ok = TRUE
    /\ continue_visible = FALSE
    /\ gp_cmds = <<>>
    /\ gp_dialogs = <<>>
    /\ gp_raised = FALSE
    /\ gp_last = Invocation("", FALSE, TRUE, {}, "")

GpIdle == GpInit

\* one handler invocation's record: what it ran, showed, and whether it raised
Ran(inv, cmds, dlgs, raised) ==
    /\ gp_last' = inv
    /\ gp_cmds' = cmds
    /\ gp_dialogs' = dlgs
    /\ gp_raised' = raised

\* refresh_git_log: a GitLogThread is started, or the commit count is not a number
LogCmds == IF max_commits_ok THEN <<"GitLogThread.start">> ELSE <<>>
LogDlgs == IF max_commits_ok THEN <<>> ELSE <<show_error("Invalid number of commits", <<>>)>>

\* what git status answers inside refresh_git_status: an exception, or an output
StatusFailed == [ok |-> FALSE, out |-> <<>>]
StatusResults == {StatusFailed} \cup {[ok |-> TRUE, out |-> o] : o \in PorcelainOutputs}

\* an answer is drawn only where the handler gets to ask for it
Asked(reached, answers, unasked) == IF reached THEN answers ELSE {unasked}
StatusAsked(reached) == Asked(reached, StatusResults, StatusFailed)

\* refresh_git_status with a repository: the list is cleared, then filled from git status
StatusDlgs(st) == IF st.ok THEN <<>> ELSE <<show_error("Error checking status", <<{"status failed"}>>)>>
StatusList(st) == IF st.ok THEN StatusRows(st.out) ELSE <<>>

\* self.git_repo.git on a panel without repository: AttributeError, caught as any Exception
NoRepoErr == {"NoneType"}
GitOk(ok) == gp_has_repo /\ ok
GitErr(msg) == IF gp_has_repo THEN msg ELSE NoRepoErr
GitCmds(cmds) == IF gp_has_repo THEN cmds ELSE <<>>

\* set_repo: Repo(path) opens or raises; refresh_all_data follows
set_repo(ok, msg, st) ==
    /\ IF ok THEN
           /\ gp_has_repo' = TRUE
           /\ status_list' = StatusList(st)
           /\ status_current' = 0
           /\ Ran(Invocation("set_repo", FALSE, ok, msg, ""),
                  LogCmds \o <<"status --porcelain">>, LogDlgs \o StatusDlgs(st), FALSE)
       ELSE
           /\ UNCHANGED <<gp_has_repo, status_list, status_current>>
           /\ Ran(Invocation("set_repo", FALSE, ok, msg, ""), <<>>,
                  <<show_error("Error opening repository", <<msg>>)>>, FALSE)
    /\ UNCHANGED <<commit_hash_input, commit_message, max_commits_ok, continue_visible>>

\* refresh_git_status, from the Refresh button
refresh_git_status(st) ==
    /\ gp_has_repo
    /\ status_list' = StatusList(st)
    /\ status_current' = 0
    /\ Ran(Invocation("refresh_git_status", FALSE, st.ok, {}, ""),
           <<"status --porcelain">>, StatusDlgs(st), FALSE)
    /\ UNCHANGED <<gp_has_repo, commit_hash_input, commit_message, max_commits_ok, continue_visible>>

\* the user clicks a row of the status list
select_status_row(i) ==
    /\ i \in DOMAIN status_list
    /\ status_current' = i
    /\ UNCHANGED <<gp_has_repo, status_list, commit_hash_input, commit_message, max_commits_ok,
                   continue_visible, gp_cmds, gp_dialogs, gp_raised, gp_last>>

\* the user types a commit hash, a commit message, a commit count
edit_panel_inputs(h, m, n_ok) ==
    /\ commit_hash_input' = h
    /\ commit_message' = m
    /\ max_commits_ok' = n_ok
    /\ UNCHANGED <<gp_has_repo, status_list, status_current, continue_visible, gp_cmds,
                   gp_dialogs, gp_raised, gp_last>>

stage_all_changes(ok, msg, st) ==
    /\ gp_has_repo
    /\ IF ok THEN
           /\ status_list' = StatusList(st)
           /\ status_current' = 0
           /\ Ran(Invocation("stage_all_changes", FALSE, ok, msg, ""),
                  <<"add .", "status --porcelain">>,
                  StatusDlgs(st) \o <<show_success("All changes staged successfully")>>, FALSE)
       ELSE
           /\ UNCHANGED <<status_list, status_current>>
           /\ Ran(Invocation("stage_all_changes", FALSE, ok, msg, ""), <<"add .">>,
                  <<show_error("Error staging changes", <<msg>>)>>, FALSE)
    /\ UNCHANGED <<gp_has_repo, commit_hash_input, commit_message, max_commits_ok, continue_visible>>

\* not status.strip(): nothing but blanks was printed
NoChanges(out) == \A i \in DOMAIN out : Strip(out[i]) = <<>>

\* stage_and_commit; fail names the Git command that raises
stage_and_commit(fail, msg, out0, st) ==
    LET inv == Invocation("stage_and_commit", FALSE, fail = "none", msg, "")
        quiet == <<status_list, status_current, commit_message>>
    IN
    /\ gp_has_repo
    /\ IF Strip(commit_message) = <<>> THEN
           /\ Ran(inv, <<>>, <<show_error("Please enter a commit message", <<>>)>>, FALSE)
           /\ UNCHANGED quiet
       ELSE IF fail = "status" THEN
           /\ Ran(inv, <<"status --porcelain">>,
                  <<show_error("Error staging and committing changes", <<msg>>)>>, FALSE)
           /\ UNCHANGED quiet
       ELSE IF NoChanges(out0) THEN
           /\ Ran(inv, <<"status --porcelain">>, <<show_error("No changes to commit", <<>>)>>, FALSE)
           /\ UNCHANGED quiet
       ELSE IF fail = "add" THEN
           /\ Ran(inv, <<"status --porcelain", "add .">>,
                  <<show_error("Error staging and committing changes", <<msg>>)>>, FALSE)
           /\ UNCHANGED quiet
       ELSE IF fail = "commit" THEN
           /\ Ran(inv, <<"status --porcelain", "add .", "commit -m">>,
                  <<show_success("All changes staged"),
                    show_error("Error staging and committing changes", <<msg>>)>>, FALSE)
           /\ UNCHANGED quiet
       ELSE
           /\ commit_message' = <<>>
           /\ status_list' = StatusList(st)
           /\ status_current' = 0
           /\ Ran(inv, <<"status --porcelain", "add .", "commit -m", "status --porcelain">> \o LogCmds,
                  <<show_success("All changes staged")>> \o StatusDlgs(st) \o LogDlgs
                      \o <<show_success("Changes staged and committed successfully")>>, FALSE)
    /\ UNCHANGED <<gp_has_repo, commit_hash_input, max_commits_ok, continue_visible>>

\* commit_changes' unstaged_changes flag: some line starts with neither a blank nor '?'
UnstagedFlag(out) ==
    \E i \in DOMAIN out : LET line == StrippedLines(out)[i] IN line # <<>> /\ line[1] \notin {" ", "?"}

\* commit_changes; fail names the Git command that raises
commit_changes(fail, msg, out0, yes, st) ==
    LET inv == Invocation("commit_changes", yes, fail = "none", msg, "")
        quiet == <<status_list, status_current, commit_message>>
        staging == UnstagedFlag(out0) /\ yes
        asked == IF UnstagedFlag(out0) THEN <<Question("Unstaged Changes")>> ELSE <<>>
        staged == IF staging THEN <<show_success("All changes staged automatically")>> ELSE <<>>
        add == IF staging THEN <<"add .">> ELSE <<>>
    IN
    /\ gp_has_repo
    /\ IF Strip(commit_message) = <<>> THEN
           /\ Ran(inv, <<>>, <<show_error("Please enter a commit message", <<>>)>>, FALSE)
           /\ UNCHANGED quiet
       ELSE IF fail = "status" THEN
           /\ Ran(inv, <<"status --porcelain">>, <<show_error("Error committing changes", <<msg>>)>>, FALSE)
           /\ UNCHANGED quiet
       ELSE IF NoChanges(out0) THEN
           /\ Ran(inv, <<"status --porcelain">>, <<show_error("No changes to commit", <<>>)>>, FALSE)
           /\ UNCHANGED quiet
       ELSE IF fail = "add" /\ staging THEN
           /\ Ran(inv, <<"status --porcelain", "add .">>,
                  asked \o <<show_error("Error committing changes", <<msg>>)>>, FALSE)
           /\ UNCHANGED quiet
       ELSE IF fail = "commit" THEN
           /\ Ran(inv, <<"status --porcelain">> \o add \o <<"commit -m">>,
                  asked \o staged \o <<show_error("Error committing changes", <<msg>>)>>, FALSE)
           /\ UNCHANGED quiet
       ELSE
           /\ commit_message' = <<>>
           /\ status_list' = StatusList(st)
           /\ status_current' = 0
           /\ Ran(inv, <<"status --porcelain">> \o add \o <<"commit -m", "status --porcelain">> \o LogCmds,
                  asked \o staged \o StatusDlgs(st) \o LogDlgs
                      \o <<show_success("Changes committed successfully")>>, FALSE)
    /\ UNCHANGED <<gp_has_repo, commit_hash_input, max_commits_ok, continue_visible>>

\* the file name revert_file reads off the selected row; <<>> when [1] raises IndexError
RowFilename(row) == IF Len(SplitOnce(row, ": ")) < 2 THEN <<>> ELSE <<SplitOnce(row, ": ")[2]>>

revert_file(yes, ok, msg, st) ==
    LET inv == Invocation("revert_file", yes, ok, msg, "") IN
    /\ IF status_current = 0 THEN
           /\ Ran(inv, <<>>, <<show_error("Please select a file to revert", <<>>)>>, FALSE)
           /\ UNCHANGED <<status_list, status_current>>
       ELSE IF RowFilename(status_list[status_current]) = <<>> THEN
           \* line 1004, outside any try
           /\ Ran(inv, <<>>, <<>>, TRUE)
           /\ UNCHANGED <<status_list, status_current>>
       ELSE IF ~yes THEN
           /\ Ran(inv, <<>>, <<Question("Revert File")>>, FALSE)
           /\ UNCHANGED <<status_list, status_current>>
       ELSE IF ~ok THEN
           /\ Ran(inv, <<"checkout --">>,
                  <<Question("Revert File"), show_error("Error reverting file", <<msg>>)>>, FALSE)
           /\ UNCHANGED <<status_list, status_current>>
       ELSE
           /\ status_list' = StatusList(st)
           /\ status_current' = 0
           /\ Ran(inv, <<"checkout --", "status --porcelain">>,
                  <<Question("Revert File")>> \o StatusDlgs(st)
                      \o <<show_success("File reverted successfully")>>, FALSE)
    /\ UNCHANGED <<gp_has_repo, commit_hash_input, commit_message, max_commits_ok, continue_visible>>

\* the Refresh button of the log tab
refresh_git_log ==
    /\ gp_has_repo
    /\ Ran(Invocation("refresh_git_log", FALSE, TRUE, {}, ""), LogCmds, LogDlgs, FALSE)
    /\ UNCHANGED <<gp_has_repo, status_list, status_current, commit_hash_input, commit_message,
                   max_commits_ok, continue_visible>>

\* "CONFLICT" in error_msg or "conflict" in error_msg.lower()
IsConflictCaseSensitive(msg) == Contains(msg, "CONFLICT")
IsConflict(msg) == Contains(msg, "CONFLICT") \/ Contains(Lower(msg), "conflict")

\* the buttons of the Revert Conflict dialog
ConflictChoices == {"Resolve Conflicts", "Skip Revert", "Abort Revert", "Cancel"}
ConflictDlg == Dlg("warning", "Revert Conflict", <<>>, ConflictChoices)

\* skip_revert and abort_revert: one Git command, then the refreshes, or an error dialog
RevertStep(cmd, done, failed, ok, st) ==
    IF ok
    THEN [cmds |-> <<cmd>> \o LogCmds \o <<"status --porcelain">>,
          dlgs |-> LogDlgs \o StatusDlgs(st) \o <<show_success(done)>>,
          ok |-> TRUE]
    ELSE [cmds |-> <<cmd>>, dlgs |-> <<show_error(failed, <<{"revert failed"}>>)>>, ok |-> FALSE]

skip_revert(ok, st) ==
    RevertStep("revert --skip", "Revert operation skipped", "Error skipping revert", ok, st)
abort_revert(ok, st) ==
    RevertStep("revert --abort", "Revert operation aborted", "Error aborting revert", ok, st)

\* resolve_revert_conflicts: no Git command, the Continue Revert button appears
resolve_revert_conflicts ==
    [cmds |-> <<>>, dlgs |-> <<Dlg("information", "Resolve Conflicts", <<>>, {})>>, ok |-> FALSE]

\* handle_revert_conflict after the user's click
ConflictBranch(choice, ok, st) ==
    CASE choice = "Resolve Conflicts" -> resolve_revert_conflicts
      [] choice = "Skip Revert" -> skip_revert(ok, st)
      [] choice = "Abort Revert" -> abort_revert(ok, st)
      [] OTHER -> [cmds |-> <<>>, dlgs |-> <<>>, ok |-> FALSE]

handle_revert_conflict(inv, asked, ran, choice, ok, st) ==
    LET branch == ConflictBranch(choice, ok, st) IN
    /\ Ran(inv, ran \o branch.cmds, asked \o <<ConflictDlg>> \o branch.dlgs, FALSE)
    /\ continue_visible' = IF choice = "Resolve Conflicts" THEN TRUE
                           ELSE IF branch.ok THEN FALSE ELSE continue_visible
    /\ IF branch.ok
       THEN status_list' = StatusList(st) /\ status_current' = 0
       ELSE UNCHANGED <<status_list, status_current>>

revert_commit ==
    LET commit_hash == Strip(commit_hash_input)
        quiet == <<status_list, status_current, continue_visible>>
    IN
    /\ IF commit_hash = <<>> THEN
           /\ Ran(Invocation("revert_commit", FALSE, TRUE, {}, ""), <<>>,
                  <<show_error("Please enter a commit hash", <<>>)>>, FALSE)
           /\ UNCHANGED quiet
       ELSE \E yes \in BOOLEAN :
           IF ~yes THEN
               /\ Ran(Invocation("revert_commit", FALSE, TRUE, {}, ""), <<>>,
                      <<Question("Revert Commit")>>, FALSE)
               /\ UNCHANGED quiet
           ELSE \E ok \in BOOLEAN :
               IF GitOk(ok) THEN
                   \E st \in StatusResults :
                       /\ Ran(Invocation("revert_commit", TRUE, TRUE, {}, ""),
                              <<"revert --no-edit">> \o LogCmds \o <<"status --porcelain">>,
                              <<Question("Revert Commit")>> \o LogDlgs \o StatusDlgs(st)
                                  \o <<show_success("Commit reverted successfully")>>, FALSE)
                       /\ status_list' = StatusList(st)
                       /\ status_current' = 0
                       /\ UNCHANGED continue_visible
               ELSE \E m \in ConflictErrTexts :
                   LET error_msg == GitErr(m) IN
                   IF IsConflict(error_msg) THEN
                       \E choice \in ConflictChoices :
                       \E ok2 \in Asked(choice \in {"Skip Revert", "Abort Revert"}, BOOLEAN, FALSE) :
                       \E st \in Asked(ok2, StatusResults, StatusFailed) :
                           handle_revert_conflict(
                               Invocation("revert_commit", TRUE, FALSE, error_msg, choice),
                               <<Question("Revert Commit")>>, GitCmds(<<"revert --no-edit">>),
                               choice, ok2, st)
                   ELSE
                       /\ Ran(Invocation("revert_commit", TRUE, FALSE, error_msg, ""),
                              GitCmds(<<"revert --no-edit">>),
                              <<Question("Revert Commit"),
                                show_error("Error reverting commit", <<error_msg>>)>>, FALSE)
                       /\ UNCHANGED quiet
    /\ UNCHANGED <<gp_has_repo, commit_hash_input, commit_message, max_commits_ok>>

\* continue_revert, from the Continue Revert button; fail names the Git command that raises
continue_revert(fail, msg, st) ==
    LET inv == Invocation("continue_revert", FALSE, fail = "none", msg, "") IN
    /\ continue_visible
    /\ IF fail = "add" THEN
           /\ Ran(inv, <<"add .">>, <<show_error("Error continuing revert", <<msg>>)>>, FALSE)
           /\ UNCHANGED <<status_list, status_current, continue_visible>>
       ELSE IF fail = "revert" THEN
           /\ Ran(inv, <<"add .", "revert --continue">>,
                  <<show_error("Error continuing revert", <<msg>>)>>, FALSE)
           /\ UNCHANGED <<status_list, status_current, continue_visible>>
       ELSE
           /\ Ran(inv, <<"add .", "revert --continue">> \o LogCmds \o <<"status --porcelain">>,
                  LogDlgs \o StatusDlgs(st)
                      \o <<show_success("Revert completed successfully after resolving conflicts")>>,
                  FALSE)
           /\ status_list' = StatusList(st)
           /\ status_current' = 0
           /\ continue_visible' = FALSE
    /\ UNCHANGED <<gp_has_repo, commit_hash_input, commit_message, max_commits_ok>>

ResetCmd(reset_type) == IF reset_type = "soft" THEN "reset --soft" ELSE "reset --hard"
ResetName(reset_type) == IF reset_type = "soft" THEN "Soft" ELSE "Hard"

reset_repo(reset_type, yes, ok, msg, st) ==
    LET inv == Invocation("reset_repo", yes, ok, GitErr(msg), reset_type)
        asked == <<Question(ResetName(reset_type))>>
    IN
    /\ IF Strip(commit_hash_input) = <<>> THEN
           /\ Ran(inv, <<>>, <<show_error("Please enter a commit hash to reset to", <<>>)>>, FALSE)
           /\ UNCHANGED <<status_list, status_current>>
       ELSE IF ~yes THEN
           /\ Ran(inv, <<>>, asked, FALSE)
           /\ UNCHANGED <<status_list, status_current>>
       ELSE IF ~GitOk(ok) THEN
           /\ Ran(inv, GitCmds(<<ResetCmd(reset_type)>>),
                  asked \o <<show_error("Error performing reset", <<GitErr(msg)>>)>>, FALSE)
           /\ UNCHANGED <<status_list, status_current>>
       ELSE
           /\ Ran(inv, <<ResetCmd(reset_type)>> \o LogCmds \o <<"status --porcelain">>,
                  asked \o LogDlgs \o StatusDlgs(st) \o <<show_success("reset completed successfully")>>,
                  FALSE)
           /\ status_list' = StatusList(st)
           /\ status_current' = 0
    /\ UNCHANGED <<gp_has_repo, commit_hash_input, commit_message, max_commits_ok, continue_visible>>

FailPoints == {"none", "status", "add", "commit"}
MessageTexts == {<<>>, <<" ", "m">>}

\* the inputs' checks that end a handler before it asks the user or Git anything
HasMessage == Strip(commit_message) # <<>>
HasHash == Strip(commit_hash_input) # <<>>
HasFileRow == status_current # 0 /\ RowFilename(status_list[status_current]) # <<>>

GpNext ==
    \/ \E ok \in BOOLEAN : \E st \in StatusAsked(ok) : set_repo(ok, {"fatal"}, st) /\ UNCHANGED notGp
    \/ \E st \in StatusResults : refresh_git_status(st) /\ UNCHANGED notGp
    \/ refresh_git_log /\ UNCHANGED notGp
    \/ \E i \in 1..2 : select_status_row(i) /\ UNCHANGED notGp
    \/ \E h \in HashTexts, m \in MessageTexts, n_ok \in BOOLEAN :
           edit_panel_inputs(h, m, n_ok) /\ UNCHANGED notGp
    \/ \E ok \in BOOLEAN : \E st \in StatusAsked(ok) :
           stage_all_changes(ok, {"fatal"}, st) /\ UNCHANGED notGp
    \/ \E fail \in Asked(HasMessage, FailPoints, "none") :
           \E out0 \in Asked(HasMessage /\ fail # "status", PorcelainOutputs, <<>>) :
               \E st \in StatusAsked(fail = "none" /\ ~NoChanges(out0)) :
                   stage_and_commit(fail, {"fatal"}, out0, st) /\ UNCHANGED notGp
    \/ \E fail \in Asked(HasMessage, FailPoints, "none") :
           \E out0 \in Asked(HasMessage /\ fail # "status", PorcelainOutputs, <<>>) :
               \E st \in StatusAsked(fail = "none" /\ ~NoChanges(out0)) :
                   \E yes \in Asked(UnstagedFlag(out0), BOOLEAN, FALSE) :
                       commit_changes(fail, {"fatal"}, out0, yes, st) /\ UNCHANGED notGp
    \/ \E yes \in Asked(HasFileRow, BOOLEAN, FALSE) :
           \E ok \in Asked(yes, BOOLEAN, TRUE) : \E st \in StatusAsked(yes /\ ok) :
               revert_file(yes, ok, {"fatal"}, st) /\ UNCHANGED notGp
    \/ revert_commit /\ UNCHANGED notGp
    \/ \E fail \in {"none", "add", "revert"} :
           \E st \in StatusAsked(fail = "none") :
               continue_revert(fail, {"fatal"}, st) /\ UNCHANGED notGp
    \/ \E reset_type \in {"soft", "hard"}, yes \in Asked(HasHash, BOOLEAN, FALSE) :
           \E ok \in Asked(yes, BOOLEAN, TRUE) : \E st \in StatusAsked(yes /\ ok) :
               reset_repo(reset_type, yes, ok, {"fatal"}, st) /\ UNCHANGED notGp

(***************************************************************************)
(* window.py: RepoWindow's Git menu, push                                  *)
(***************************************************************************)

RepoShape(head, branches, remotes, ahead, behind, dirty) ==
    [head |-> head, branches |-> branches, remotes |-> remotes,
     ahead |-> ahead, behind |-> behind, dirty |-> dirty]

\* the repositories the window is opened on
RepoShapes ==
    {RepoShape("main", {"main"}, {"main"}, 1, 0, FALSE),
     RepoShape("main", {"main"}, {"main"}, 1, 1, FALSE),
     RepoShape("main", {"main"}, {"main"}, 2, 1, FALSE),
     RepoShape("main", {"main"}, {"main"}, 0, 1, TRUE),
     RepoShape("dev", {"dev", "main"}, {"main"}, 1, 0, FALSE),
     RepoShape(Detached, {"main"}, {"main"}, 0, 0, FALSE),
     RepoShape(Detached, {"dev", "master"}, {"master"}, 0, 0, TRUE),
     RepoShape(Detached, {"main"}, {"master"}, 0, 0, FALSE),
     RepoShape(Detached, {"dev"}, {}, 0, 0, TRUE),
     RepoShape(Detached, {"master"}, {}, 0, 0, FALSE),
     RepoShape(Detached, {}, {}, 0, 0, FALSE)}

\* what the branch-name prompt can hold when it is accepted
BranchTexts == {<<"feature-branch">>, <<" ">>, <<" ", "topic", " ">>}

PushErrs == {{"non-fast-forward"}, {"rejected"}, {"Rejected"}, {"no upstream branch"},
             {"rejected", "No Upstream Branch"}, {"fatal"}}
PullErrs == {{"Merge conflict"}, {"CONFLICT"}, {"fatal"}}
GitErrs == {{"fatal"}}

\* one outcome of a handler or of a part of it
Out(g, cmds, dlgs, picks) == [g |-> g, cmds |-> cmds, dlgs |-> dlgs, picks |-> picks]

\* outcomes of what follows, after these commands, dialogs and button picks
After(cmds, dlgs, picks, outs) ==
    {Out(o.g, cmds \o o.cmds, dlgs \o o.dlgs, picks \o o.picks) : o \in outs}

\* one Git command of a try block: whether it can succeed here, how it can fail, what it leaves
Step(cmd, can, errs, g) == [cmd |-> cmd, can |-> can, errs |-> errs, g |-> g]

\* try: the steps in order, then the dialogs of success; except Exception as e: Warn(str(e))
Try(g, steps, done, Warn(_)) ==
    LET n == Len(steps)
        names(k) == [i \in 1..k |-> steps[i].cmd]
        left(k) == IF k = 0 THEN g ELSE steps[k].g
        reach(k) == \A i \in 1..(k - 1) : steps[i].can
    IN UNION {{Out(left(k - 1), names(k), <<Warn(e)>>, <<>>) : e \in steps[k].errs} :
                  k \in {j \in 1..n : reach(j)}}
       \cup (IF reach(n + 1) THEN {Out(left(n), names(n), done, <<>>)} ELSE {})

Warning(title, e) == Dlg("warning", title, <<e>>, {})
Information(title) == Dlg("information", title, <<>>, {})

\* list(repo.iter_commits('a..b')): git rev-list, which needs origin/<branch>
RevList(g, branch) == Step("rev-list", branch \in g.remotes, GitErrs, g)

\* git push origin <branch>: only a fast-forward is accepted
Push(g, branch) ==
    Step("push", g.behind = 0, PushErrs, [g EXCEPT !.ahead = 0, !.remotes = @ \cup {branch}])

\* force_push_changes
force_push_changes(g, branch) ==
    LET asked == Question("Force Push Warning")
        warn(e) == Warning("Failed to force push", e)
        forced == [g EXCEPT !.ahead = 0, !.behind = 0]
    IN UNION {IF o.dlgs # <<>> THEN {o}
              ELSE {Out(g, o.cmds, <<asked, Information("Force push cancelled")>>, <<"No">>)}
                   \cup After(o.cmds, <<asked>>, <<"Yes">>,
                              Try(g, <<Step("push --force-with-lease", TRUE, GitErrs, forced)>>,
                                  <<Information("Force push completed")>>, warn)) :
              o \in Try(g, <<RevList(g, branch)>>, <<>>, warn)}

\* pull_and_rebase_push
pull_and_rebase_push(g, branch) ==
    LET pulled == [g EXCEPT !.behind = 0] IN
    Try(g, <<Step("pull --rebase", TRUE, PullErrs, pulled), Push(pulled, branch)>>,
        <<Information("Pulled, rebased, and pushed successfully")>>,
        LAMBDA e : IF Contains(Lower(e), "rebase conflict") \/ Contains(Lower(e), "conflict")
                   THEN Warning("Rebase Conflict", e)
                   ELSE Warning("Failed to pull and rebase", e))

\* a Pull & Merge that rebases
pull_and_merge_pushRebases(g, branch) == pull_and_rebase_push(g, branch)

\* pull_and_merge_push
pull_and_merge_push(g, branch) ==
    LET pulled == [g EXCEPT !.behind = 0] IN
    Try(g, <<Step("pull --no-rebase", TRUE, PullErrs, pulled), Push(pulled, branch)>>,
        <<Information("Pulled, merged, and pushed successfully")>>,
        LAMBDA e : IF Contains(Lower(e), "merge conflict")
                   THEN Warning("Merge Conflict", e)
                   ELSE Warning("Failed to pull and merge", e))

\* the buttons of the non-fast-forward dialog
NffChoices == {"Force Push", "Pull & Merge", "Pull & Rebase", "Cancel"}

\* handle_non_fast_forward_push: two counts, the dialog, the chosen strategy
handle_non_fast_forward_push(g, branch) ==
    LET dialog == Dlg("question", "Non-Fast-Forward Push - Choose Resolution", <<>>, NffChoices)
        strategy(choice) ==
            CASE choice = "Force Push" -> force_push_changes(g, branch)
              [] choice = "Pull & Merge" -> pull_and_merge_push(g, branch)
              [] choice = "Pull & Rebase" -> pull_and_rebase_push(g, branch)
              [] OTHER -> {Out(g, <<>>, <<>>, <<>>)}
    IN UNION {IF o.dlgs # <<>> THEN {o}
              ELSE UNION {After(o.cmds, <<dialog>>, <<choice>>, strategy(choice)) : choice \in NffChoices} :
              o \in Try(g, <<RevList(g, branch), RevList(g, branch)>>, <<>>,
                        LAMBDA e : Warning("Failed to handle non-fast-forward push", e))}

\* the except clause of push_repo_changes, lines 1389-1400
push_error(g, branch, error_msg) ==
    IF Contains(Lower(error_msg), "no upstream branch")
    THEN {Out(g, <<>>, <<Information("No Remote")>>, <<>>)}
    ELSE IF Contains(error_msg, "non-fast-forward") \/ Contains(error_msg, "rejected")
    THEN handle_non_fast_forward_push(g, branch)
    ELSE {Out(g, <<>>, <<Warning("Failed to push changes", error_msg)>>, <<>>)}

\* repo.branches and a remote's refs are listed sorted by name
Listing == <<"dev", "feature-branch", "main", "master", "temp-sha", "topic">>
FirstListed(names) ==
    Listing[CHOOSE i \in DOMAIN Listing :
                Listing[i] \in names /\ \A j \in 1..(i - 1) : Listing[j] \notin names]

\* handle_detached_head_push's default_branch, lines 1518-1541; without refs of origin the
\* remote lookup may raise, which gives 'main'
DefaultBranches(g) ==
    LET local == IF "main" \in g.branches THEN "main"
                 ELSE IF "master" \in g.branches THEN "master"
                 ELSE IF g.branches # {} THEN FirstListed(g.branches) ELSE "main"
    IN IF "main" \in g.remotes THEN {"main"}
       ELSE IF "master" \in g.remotes THEN {"master"}
       ELSE {local, "main"}

\* the names window.py binds at module level from PyQt6.QtWidgets (line 1); the imports inside
\* other functions (1339, 1894, 1924) bind QInputDialog only there
QtWidgetsNames ==
    {"QWidget", "QVBoxLayout", "QHBoxLayout", "QSplitter", "QTreeWidget", "QTreeWidgetItem", "QTextEdit",
     "QFileIconProvider", "QLabel", "QScrollArea", "QPushButton", "QMessageBox", "QApplication", "QMenu"}

\* str(NameError) for a name that is not bound
NameError == {"name 'QInputDialog' is not defined"}

\* QInputDialog.getText for a branch name, then create_head, checkout and, if asked, push;
\* with QInputDialog unbound the first line of the try raises NameError
NewBranch(g, title, pushing, done, failed) ==
    IF "QInputDialog" \notin QtWidgetsNames THEN {Out(g, <<>>, <<Warning(failed, NameError)>>, <<>>)} ELSE
    LET prompt == Dlg("input", title, <<>>, {"OK", "Cancel"})
        made(name) == [g EXCEPT !.branches = @ \cup {name}]
        on(name) == [made(name) EXCEPT !.head = name, !.ahead = 0, !.behind = 0]
        pushed(name) == [on(name) EXCEPT !.remotes = @ \cup {name}]
        steps(name) ==
            <<Step("create_head", TRUE, GitErrs, made(name)), Step("checkout", TRUE, GitErrs, on(name))>>
            \o (IF pushing THEN <<Step("push --set-upstream", TRUE, GitErrs, pushed(name))>> ELSE <<>>)
    IN {Out(g, <<>>, <<prompt>>, <<"Cancel">>)}
       \cup UNION {IF Strip(text) = <<>> THEN {Out(g, <<>>, <<prompt>>, <<"OK">>)}
                   ELSE After(<<>>, <<prompt>>, <<"OK", Strip(text)[1]>>,
                              Try(g, steps(Strip(text)[1]), <<Information(done)>>,
                                  LAMBDA e : Warning(failed, e))) :
                   text \in BranchTexts}

create_branch_from_detached_head(g) ==
    NewBranch(g, "Create New Branch", TRUE, "Created branch and pushed to server", "Failed to create branch")

create_and_switch_branch(g) ==
    NewBranch(g, "Create and Switch Branch", FALSE, "Created and switched to branch",
              "Failed to create and switch branch")

\* switch_to_default_branch
switch_to_default_branch(g, default_branch) ==
    LET asked == Dlg("question", "Uncommitted Changes", <<>>, {"Yes", "No", "Cancel"})
        warn(e) == Warning("Failed to switch", e)
        known == default_branch \in g.branches \cup g.remotes
        clean == [g EXCEPT !.dirty = FALSE]
        on(h) == [h EXCEPT !.head = default_branch, !.branches = @ \cup {default_branch},
                           !.ahead = 0, !.behind = 0]
        temp == [clean EXCEPT !.branches = @ \cup {"temp-sha"}]
    IN IF g.dirty
       THEN After(<<>>, <<asked>>, <<"Yes">>,
                  Try(g, <<Step("stash push", TRUE, GitErrs, clean),
                           Step("checkout", known, GitErrs, on(clean))>>,
                      <<Information("Stashed changes and switched")>>, warn))
            \cup After(<<>>, <<asked>>, <<"No">>,
                       Try(g, <<Step("add .", TRUE, GitErrs, g), Step("commit -m", TRUE, GitErrs, clean),
                                Step("create_head", TRUE, GitErrs, temp),
                                Step("push", TRUE, GitErrs, [temp EXCEPT !.remotes = @ \cup {"temp-sha"}])>>,
                           <<Information("Committed changes to temporary branch")>>, warn))
            \cup {Out(g, <<>>, <<asked>>, <<"Cancel">>)}
       ELSE Try(g, <<Step("checkout", known, GitErrs, on(g))>>, <<Information("Switched")>>, warn)

\* the buttons of the detached-HEAD dialog
DetachedChoices == {"Create New Branch", "Switch", "Create & Switch Branch", "Cancel"}

\* handle_detached_head_push
handle_detached_head_push(g, default_branch) ==
    LET dialog == Dlg("warning", "Detached HEAD State", <<>>, DetachedChoices)
        chosen(choice) ==
            CASE choice = "Create New Branch" -> create_branch_from_detached_head(g)
              [] choice = "Switch" -> switch_to_default_branch(g, default_branch)
              [] choice = "Create & Switch Branch" -> create_and_switch_branch(g)
              [] OTHER -> {Out(g, <<>>, <<>>, <<>>)}
    IN UNION {After(<<>>, <<dialog>>, <<choice>>, chosen(choice)) : choice \in DetachedChoices}

\* a handler run: its outcome, the command whose failure the except clause saw, and the text
Run(handler, o, failed, msg, default_branch) ==
    [handler |-> handler, cmds |-> o.cmds, dlgs |-> o.dlgs, picks |-> o.picks,
     failed |-> failed, msg |-> msg, default |-> default_branch, g |-> o.g]

\* every way push_repo_changes can go on repository g
PushRuns(g) ==
    LET h == "push_repo_changes"
        branch == g.head
        counted == <<"rev-list">>
    IN {Run(h, Out(g, <<>>, <<Warning("Failed to push changes", e)>>, <<>>), "Repo", e, "") : e \in GitErrs}
       \cup
       (IF g.head = Detached
        THEN UNION {{Run(h, o, "", {}, d) : o \in handle_detached_head_push(g, d)} :
                        d \in DefaultBranches(g)}
        ELSE UNION {{Run(h, o, "rev-list", e, "") : o \in After(counted, <<>>, <<>>, push_error(g, branch, e))} :
                        e \in GitErrs}
             \cup
             (IF branch \notin g.remotes THEN {}
              ELSE IF g.ahead = 0
              THEN {Run(h, Out(g, counted, <<Information("No changes to push to the server")>>, <<>>), "", {}, "")}
              ELSE UNION {{Run(h, o, "push", e, "") :
                               o \in After(counted \o <<"push">>, <<>>, <<>>, push_error(g, branch, e))} :
                              e \in PushErrs}
                   \cup
                   (IF g.behind # 0 THEN {}
                    ELSE {Run(h, Out([g EXCEPT !.ahead = 0], counted \o <<"push">>,
                                     <<Information("Pushed commits to server")>>, <<>>), "", {}, "")})))

\* the XY codes with which git status --porcelain marks an unmerged path
UnmergedCodes == {"UU", "AA", "DD", "AU", "UA", "DU", "UD"}

\* the codes check_and_handle_unmerged_files and check_context_unmerged_files look for
CheckedCodes == {"UU", "AA", "DD"}

\* the buttons of the unmerged-files dialog
UnmergedChoices == {"Resolve Conflicts", "Abort Previous Operation", "Reset Repository", "Cancel"}

\* the operations abort_previous_operation tries to abort, in its order
AbortOrder == <<"revert", "merge", "cherry-pick">>
AbortCmds == <<"revert --abort", "merge --abort", "cherry-pick --abort">>

\* the outcomes outs, and each that ended without a dialog continued by what follows it
AndThen(outs, Rest(_)) ==
    UNION {IF o.dlgs # <<>> THEN {o} ELSE After(o.cmds, <<>>, <<>>, Rest(o.g)) : o \in outs}

\* QMessageBox.question; on Yes the steps in a try, then the dialog of success or of failure
Confirmed(g, title, steps, done, failed) ==
    {Out(g, <<>>, <<Question(title)>>, <<"No">>)}
    \cup After(<<>>, <<Question(title)>>, <<"Yes">>,
               Try(g, steps, <<Information(done)>>, LAMBDA e : Warning(failed, e)))

\* what git status --porcelain can list in repository g
StatusCodes(g) == IF g.dirty THEN {{" M"}, {"UU", " M"}, {"UD"}} ELSE {{}}

\* git reset --hard HEAD~1: the current branch loses its last commit
MaxBehind == 2
ResetToParent(g) ==
    IF g.head = Detached \/ g.head \notin g.remotes THEN [g EXCEPT !.dirty = FALSE]
    ELSE IF g.ahead > 0 THEN [g EXCEPT !.ahead = @ - 1, !.dirty = FALSE]
    ELSE [g EXCEPT !.behind = @ + 1, !.dirty = FALSE]

\* reset_context_repository_state
reset_context_repository_state(g) ==
    Confirmed(g, "Reset Repository", <<Step("reset --hard", TRUE, GitErrs, [g EXCEPT !.dirty = FALSE])>>,
              "Repository reset to clean state", "Error resetting repository")

\* abort_context_previous_operation: revert, merge, cherry-pick --abort, the first that succeeds
abort_context_previous_operation(g) ==
    {Out(g, SubSeq(AbortCmds, 1, n), <<Information("Previous operation aborted successfully")>>, <<>>) :
         n \in 1..3}
    \cup {Out(g, AbortCmds, <<Warning("No Operation", {})>>, <<>>)}

\* handle_context_unmerged_files_error
handle_context_unmerged_files_error(g) ==
    LET dialog == Dlg("warning", "Unmerged Files Detected", <<>>, UnmergedChoices) IN
    UNION {After(<<>>, <<dialog>>, <<choice>>,
                 CASE choice = "Resolve Conflicts" -> {Out(g, <<>>, <<Information("Resolve Conflicts")>>, <<>>)}
                   [] choice = "Abort Previous Operation" -> abort_context_previous_operation(g)
                   [] choice = "Reset Repository" -> reset_context_repository_state(g)
                   [] OTHER -> {Out(g, <<>>, <<>>, <<>>)}) :
           choice \in UnmergedChoices}

\* check_context_unmerged_files, then the rest of the handler if it returns True
CheckedThen(g, st, status_ok, rest) ==
    After(<<"status --porcelain">>, <<>>, <<>>,
          IF status_ok /\ st \cap CheckedCodes # {} THEN handle_context_unmerged_files_error(g) ELSE rest)

\* safe_revert_repo
safe_revert_repo(g, st, status_ok, has_parent) ==
    CheckedThen(g, st, status_ok,
        IF ~has_parent THEN {Out(g, <<>>, <<Warning("No previous commit to revert to", {})>>, <<>>)}
        ELSE Confirmed(g, "Safe Revert (Keep History)",
                       <<Step("checkout", st \cap UnmergedCodes = {}, GitErrs,
                              [g EXCEPT !.head = Detached, !.ahead = 0, !.behind = 0])>>,
                       "Repository safely reverted", "Failed to safely revert repository"))

\* destructive_revert_repo
destructive_revert_repo(g, st, status_ok, has_parent) ==
    CheckedThen(g, st, status_ok,
        Confirmed(g, "Destructive Revert (Delete History)",
                  <<Step("reset --hard", has_parent, GitErrs, ResetToParent(g))>>,
                  "Repository destructively reverted", "Failed to destructively revert repository"))

\* reverse_repo_destructive
reverse_repo_destructive(g, has_parent) ==
    Confirmed(g, "Reverse Repository Destructive",
              <<Step("reset --hard", has_parent, GitErrs, ResetToParent(g))>>,
              "Repository reset destructively", "Failed to reverse repository")

\* safe_revert_file
safe_revert_file(g, has_parent) ==
    Confirmed(g, "Safe Revert File (Keep History)",
              <<Step("checkout --", has_parent, GitErrs, [g EXCEPT !.dirty = TRUE])>>,
              "File safely reverted", "Failed to safely revert file")

\* destructive_revert_file
destructive_revert_file(g, has_parent) ==
    Confirmed(g, "Destructive Revert File (Delete History)",
              <<Step("checkout --", has_parent, GitErrs, [g EXCEPT !.dirty = TRUE])>>,
              "File destructively reverted", "Failed to destructively revert file")

\* remove_file: an untracked file leaves the status as it was, a tracked one shows as deleted
remove_file(g) ==
    UNION {Confirmed(g, "Remove File", <<Step("unlink", TRUE, GitErrs, h)>>,
                     "File removed successfully", "Failed to remove file") :
           h \in {g, [g EXCEPT !.dirty = TRUE]}}

\* remove_folder
remove_folder(g) ==
    UNION {Confirmed(g, "Remove Folder", <<Step("rmtree", TRUE, GitErrs, h)>>,
                     "Folder removed successfully", "Failed to remove folder") :
           h \in {g, [g EXCEPT !.dirty = TRUE]}}

\* the texts of a failed fetch, rev-list or pull
PullFlowErrs ==
    {{"divergent branches"}, {"Need to specify how to reconcile"}, {"No Upstream Branch"}, {"CONFLICT"},
     {"fatal"}}
FastForwardErrs == {{"Not possible to fast-forward"}, {"fatal"}}

\* repo.active_branch on a detached HEAD
DetachedError == {"HEAD is a detached symbolic reference"}

\* if stashed: git stash pop, which puts the changes back or fails and leaves them in the stash
Restore(g, stashed, done) ==
    IF ~stashed THEN {Out(g, <<>>, <<Information(done)>>, <<>>)}
    ELSE {Out([g EXCEPT !.dirty = TRUE], <<"stash pop">>, <<Information("stashed changes restored")>>, <<>>),
          Out(g, <<"stash pop">>, <<Information("remain in stash")>>, <<>>)}

\* git pull origin <branch> that brings origin's commits in
Pulled(g) == [g EXCEPT !.behind = 0]

\* pull_with_merge
pull_with_merge(g, stashed) ==
    AndThen(Try(g, <<Step("config pull.rebase false", TRUE, GitErrs, g),
                     Step("pull", TRUE, PullErrs, Pulled(g))>>, <<>>,
                LAMBDA e : Warning("Failed to pull with merge", e)),
            LAMBDA h : Restore(h, stashed, "Changes pulled with merge strategy"))

\* pull_with_rebase
pull_with_rebase(g, stashed) ==
    AndThen(Try(g, <<Step("config pull.rebase true", TRUE, GitErrs, g),
                     Step("pull", TRUE, PullErrs, Pulled(g))>>, <<>>,
                LAMBDA e : Warning("Failed to pull with rebase", e)),
            LAMBDA h : Restore(h, stashed, "Changes pulled with rebase strategy"))

\* pull_fast_forward_only
pull_fast_forward_only(g, stashed) ==
    AndThen(Try(g, <<Step("config pull.ff only", TRUE, GitErrs, g),
                     Step("pull", g.ahead = 0, FastForwardErrs, Pulled(g))>>, <<>>,
                LAMBDA e : IF Contains(e, "Not possible to fast-forward") \/ Contains(e, "fast-forward")
                           THEN Warning("Fast-Forward Not Possible", {})
                           ELSE Warning("Failed to pull with fast-forward", e)),
            LAMBDA h : Restore(h, stashed, "Changes pulled with fast-forward strategy"))

\* a pull_overwrite_local that resets whatever the answer
pull_overwrite_localUnasked(g, stashed) ==
    LET asked == Question("DANGER: Overwrite Local Changes")
        reset == [g EXCEPT !.ahead = 0, !.behind = 0, !.dirty = FALSE]
    IN UNION {After(<<>>, <<asked>>, <<answer>>,
                    AndThen(Try(g, <<Step("fetch", TRUE, GitErrs, g),
                                     Step("reset --hard", g.head \in g.remotes, GitErrs, reset)>>, <<>>,
                                LAMBDA e : Warning("Failed to overwrite local changes", e)),
                            LAMBDA h : Restore(h, stashed, "Local changes overwritten"))) :
              answer \in {"Yes", "No"}}

\* pull_overwrite_local
pull_overwrite_local(g, stashed) ==
    LET asked == Question("DANGER: Overwrite Local Changes")
        reset == [g EXCEPT !.ahead = 0, !.behind = 0, !.dirty = FALSE]
    IN {Out(g, <<>>, <<asked, Information("Cancelled")>>, <<"No">>)}
       \cup After(<<>>, <<asked>>, <<"Yes">>,
                  AndThen(Try(g, <<Step("fetch", TRUE, GitErrs, g),
                                   Step("reset --hard", g.head \in g.remotes, GitErrs, reset)>>, <<>>,
                              LAMBDA e : Warning("Failed to overwrite local changes", e)),
                          LAMBDA h : Restore(h, stashed, "Local changes overwritten")))

\* the buttons of the divergent-branches dialog
DivergentChoices == {"Merge", "Rebase", "Fast-Forward Only", "Overwrite Local", "Cancel"}

\* handle_divergent_branches
handle_divergent_branches(g, stashed) ==
    LET dialog == Dlg("question", "Divergent Branches - Choose Resolution Strategy", <<>>, DivergentChoices)
        strategy(choice) ==
            CASE choice = "Merge" -> pull_with_merge(g, stashed)
              [] choice = "Rebase" -> pull_with_rebase(g, stashed)
              [] choice = "Fast-Forward Only" -> pull_fast_forward_only(g, stashed)
              [] choice = "Overwrite Local" -> pull_overwrite_local(g, stashed)
              [] OTHER -> {Out(g, <<>>, <<>>, <<>>)}
    IN UNION {IF o.dlgs # <<>> THEN {o}
              ELSE UNION {After(o.cmds, <<dialog>>, <<choice>>, strategy(choice)) : choice \in DivergentChoices} :
              o \in Try(g, <<RevList(g, g.head), RevList(g, g.head)>>, <<>>,
                        LAMBDA e : Warning("Failed to handle divergent branches", e))}

\* the except clause of pull_repo_changes, lines 1721-1732
pull_error(g, stashed, error_msg) ==
    IF Contains(error_msg, "divergent branches") \/ Contains(error_msg, "Need to specify how to reconcile")
    THEN handle_divergent_branches(g, stashed)
    ELSE IF Contains(Lower(error_msg), "no upstream branch")
    THEN {Out(g, <<>>, <<Information("No Remote")>>, <<>>)}
    ELSE {Out(g, <<>>, <<Warning("Pull Error", error_msg)>>, <<>>)}

\* pull_repo_changes from its inner try on, lines 1696-1732
pull_from(g, stashed) ==
    LET steps == <<Step("fetch", TRUE, PullFlowErrs, g), RevList(g, g.head),
                   Step("pull", g.ahead = 0 \/ g.behind = 0, PullFlowErrs, Pulled(g))>>
        \* how far the commands get: the fetch, the count, the pull
        broke(k) == {[cmds |-> [i \in 1..k |-> steps[i].cmd], e |-> e] : e \in steps[k].errs}
        breaks == broke(1) \cup (IF steps[2].can THEN broke(2) \cup (IF g.behind > 0 THEN broke(3) ELSE {})
                                 ELSE broke(2))
        counted == <<"fetch", "rev-list">>
    IN IF g.head = Detached THEN pull_error(g, stashed, DetachedError)
       ELSE UNION {After(b.cmds, <<>>, <<>>, pull_error(g, stashed, b.e)) : b \in breaks}
            \cup (IF ~steps[2].can THEN {}
                  ELSE IF g.behind = 0
                  THEN {Out(g, counted, <<Information("No changes to pull from the server")>>, <<>>)}
                  ELSE IF ~steps[3].can THEN {}
                  ELSE After(counted \o <<"pull">>, <<>>, <<>>,
                             Restore(Pulled(g), stashed, "Pulled commits from server")))

\* pull_repo_changes
pull_repo_changes(g) ==
    LET asked == Question("Uncommitted Changes")
        failed(e) == Warning("Failed to pull changes", e)
    IN {Out(g, <<>>, <<failed(e)>>, <<>>) : e \in GitErrs}
       \cup (IF ~g.dirty THEN pull_from(g, FALSE)
             ELSE {Out(g, <<>>, <<asked>>, <<"No">>)}
                  \cup After(<<>>, <<asked>>, <<"Yes">>,
                             AndThen(Try(g, <<Step("stash", TRUE, GitErrs, [g EXCEPT !.dirty = FALSE])>>,
                                         <<>>, failed),
                                     LAMBDA h : pull_from(h, TRUE))))

\* the answers of git status and of HEAD's parents that a revert from the menu can meet
RevertCases(g) == StatusCodes(g) \X BOOLEAN \X BOOLEAN

\* a handler of the tree's context menu other than the push, with every way it can go:
\* git.Repo(repo_path) raises inside the handler's try, or the handler goes on
MenuRuns(g, handler) ==
    LET runs(outs) == {Run(handler, o, "", {}, "") : o \in outs}
        opened(failed, outs) == runs({Out(g, <<>>, <<Warning(failed, e)>>, <<>>) : e \in GitErrs} \cup outs)
    IN CASE handler = "pull_repo_changes" -> runs(pull_repo_changes(g))
         [] handler = "safe_revert_repo" ->
                opened("Failed to safely revert repository",
                       UNION {safe_revert_repo(g, c[1], c[2], c[3]) : c \in RevertCases(g)})
         [] handler = "destructive_revert_repo" ->
                opened("Failed to destructively revert repository",
                       UNION {destructive_revert_repo(g, c[1], c[2], c[3]) : c \in RevertCases(g)})
         [] handler = "reverse_repo_destructive" ->
                opened("Failed to reverse repository",
                       UNION {reverse_repo_destructive(g, has_parent) : has_parent \in BOOLEAN})
         [] handler = "safe_revert_file" ->
                opened("Failed to safely revert file",
                       UNION {safe_revert_file(g, has_parent) : has_parent \in BOOLEAN})
         [] handler = "destructive_revert_file" ->
                opened("Failed to destructively revert file",
                       UNION {destructive_revert_file(g, has_parent) : has_parent \in BOOLEAN})
         [] handler = "remove_file" -> runs(remove_file(g))
         [] OTHER -> runs(remove_folder(g))

NoRun == Run("", Out(<<>>, <<>>, <<>>, <<>>), "", {}, "")

\* the repository before the last invocation; moved: the invocation before it ran a
\* git reset --hard HEAD~1 that succeeded
Before(g, moved) == [g |-> g, moved |-> moved]

\* the run took the current branch back by one commit
ResetBranch(r) ==
    /\ r.handler \in {"destructive_revert_repo", "reverse_repo_destructive"}
    /\ r.cmds # <<>> /\ r.cmds[Len(r.cmds)] = "reset --hard"
    /\ r.dlgs[Len(r.dlgs)].kind = "information"

RpInit ==
    /\ rp_git \in RepoShapes
    /\ rp_run = NoRun
    /\ rp_before = Before(rp_git, FALSE)

RpIdle ==
    /\ rp_git = RepoShape("main", {"main"}, {"main"}, 1, 0, FALSE)
    /\ rp_run = NoRun
    /\ rp_before = Before(rp_git, FALSE)

\* a handler of the tree's context menu has run
RpRan(r) ==
    /\ r.g.behind <= MaxBehind
    /\ rp_git' = r.g
    /\ rp_run' = r
    /\ rp_before' = Before(rp_git, ResetBranch(rp_run))

\* push_repo_changes, from the tree's context menu
push_repo_changes == \E r \in PushRuns(rp_git) : RpRan(r)

MenuHandlers ==
    {"pull_repo_changes", "safe_revert_repo", "destructive_revert_repo", "reverse_repo_destructive",
     "safe_revert_file", "destructive_revert_file", "remove_file", "remove_folder"}

\* one of the other handlers of the context menu
context_menu(handler) == \E r \in MenuRuns(rp_git, handler) : RpRan(r)

RpNext ==
    \/ push_repo_changes /\ UNCHANGED notRp
    \/ \E handler \in MenuHandlers : context_menu(handler) /\ UNCHANGED notRp

(***************************************************************************)
(* api_config.py test_connection, user_manager.py fetch_repos,             *)
(* git_logs_viewer.py abort_previous_operation                             *)
(***************************************************************************)

\* how the server, or the way to it, answers one request
Answers == {"200", "403", "500", "SSLError", "ProxyError 403"}
AltAnswers == {"200", "403", "SSLError"}

UsernameTexts == {<<" ">>, <<" ", "u">>}
UserConfigs == {Config(<<"a">>, <<"h">>, <<"t">>), Config(<<"a">>, <<"http://", "h", "/">>, <<>>)}

\* requests.get(url, headers=headers, verify=..., timeout=...)
Get(url, verify) == [method |-> "GET", url |-> url, verify |-> verify]

\* alternative endpoints that ask for the same URL twice
alt_urlsRepeated(server) == <<server \o <<"/api/v1/user">>, server \o <<"/api/v1/user">>>>

\* test_connection's alternative endpoints after a 403
alt_urls(server) ==
    <<server \o <<"/api/v1/user">>, server \o <<"/api/v1/user/current">>, server \o <<"/api/v1/version">>>>

\* an endpoint that searches all repositories
repos_urlSearch(server, username) == server \o <<"/api/v1/repos/search">>

\* fetch_repos' endpoint
repos_url(server, username) == server \o <<"/api/v1/users/">> \o username \o <<"/repos">>

\* a label left empty
ForbiddenStatusNone == ""

\* the status label once every alternative endpoint has failed
ForbiddenStatus == "403 Forbidden - Check"

\* a handler run: the server text it read, what it sent and got, ran, wrote and showed
IoRun(handler, server, requests, answers, cmds, status, dlgs) ==
    [handler |-> handler, server |-> server, requests |-> requests, answers |-> answers,
     cmds |-> cmds, status |-> status, dlgs |-> dlgs]

\* every way test_connection can go with these two input texts
TestRuns(server_text, token_text) ==
    LET h == "test_connection"
        server == NormalizeServer(Strip(server_text))
        url == server \o <<"/api/v1/user">>
        first == Get(url, TRUE)
        alts == alt_urls(server)
        tried(k) == [i \in 1..k |-> Get(alts[i], FALSE)]
        \* the loop over alt_urls stops at the first 200; an exception or another status moves on
        loops == {as \in UNION {[1..k -> AltAnswers] : k \in 1..Len(alts)} :
                      /\ \A i \in 1..(Len(as) - 1) : as[i] # "200"
                      /\ Len(as) < Len(alts) => as[Len(as)] = "200"}
        found(as) == IF as[Len(as)] # "200" THEN ForbiddenStatus
                     ELSE IF "/api/v1/version" \in Range(alts[Len(as)])
                     THEN "Server connection successful"
                     ELSE "Connection successful"
        bypassed(a) == CASE a = "200" -> "Connection successful (SSL bypassed)"
                         [] a = "403" -> ForbiddenStatus
                         [] OTHER -> "Connection failed"
    IN IF Strip(server_text) = <<>> \/ Strip(token_text) = <<>>
       THEN {IoRun(h, server_text, <<>>, <<>>, <<>>, "Please enter both server URL and API token.", <<>>)}
       ELSE {IoRun(h, server_text, <<first>>, <<"200">>, <<>>, "Connection successful", <<>>),
             IoRun(h, server_text, <<first>>, <<"500">>, <<>>, "Connection failed", <<>>),
             IoRun(h, server_text, <<first>>, <<"ProxyError 403">>, <<>>, ForbiddenStatus, <<>>)}
            \cup {IoRun(h, server_text, <<first>> \o tried(Len(as)), <<"403">> \o as, <<>>, found(as), <<>>) :
                      as \in loops}
            \cup {IoRun(h, server_text, <<first, Get(url, FALSE)>>, <<"SSLError", a>>, <<>>, bypassed(a), <<>>) :
                      a \in Answers}

\* every way fetch_repos can go
FetchRuns(username_text, selected) ==
    LET h == "fetch_repos"
        username == Strip(username_text)
        stop(text) == {IoRun(h, <<>>, <<>>, <<>>, <<>>, "", <<Warning(text, {})>>)}
    IN IF username = <<>> THEN stop("Please provide username.")
       ELSE IF selected = <<>> THEN stop("Please select a Gitea server configuration.")
       ELSE IF Strip(selected[1].server_url) = <<>> \/ Strip(selected[1].token) = <<>>
       THEN stop("Selected configuration is missing server URL or token.")
       ELSE LET url == repos_url(NormalizeServer(Strip(selected[1].server_url)), username)
                first == Get(url, TRUE)
                again == Get(url, FALSE)
                listed == {"Found repositories", "No repositories found for this user."}
            IN {IoRun(h, selected[1].server_url, <<first>>, <<"200">>, <<>>, st, <<>>) : st \in listed}
               \cup {IoRun(h, selected[1].server_url, <<first>>, <<a>>, <<>>, "",
                           <<Warning("Failed to fetch repos", {a})>>) :
                         a \in Answers \ {"200", "SSLError"}}
               \cup {IoRun(h, selected[1].server_url, <<first, again>>, <<"SSLError", "200">>, <<>>, st, <<>>) : st \in listed}
               \cup {IoRun(h, selected[1].server_url, <<first, again>>, <<"SSLError", a>>, <<>>, "",
                           <<Warning("Failed to fetch repos (SSL and non-SSL failed)", {a})>>) :
                         a \in Answers \ {"200"}}

\* abort_previous_operation: the first abort that Git accepts ends it
AbortRuns ==
    LET h == "abort_previous_operation"
        aborts == <<"revert --abort", "merge --abort", "cherry-pick --abort">>
    IN {IoRun(h, <<>>, <<>>, <<>>, SubSeq(aborts, 1, k), "", <<Information("operation aborted successfully")>>) :
            k \in DOMAIN aborts}
       \cup {IoRun(h, <<>>, <<>>, <<>>, aborts, "", <<Warning("No ongoing operation found to abort", {})>>)}

IoInit ==
    /\ username_input = <<>>
    /\ selected_config = <<>>
    /\ io_run = IoRun("", <<>>, <<>>, <<>>, <<>>, "", <<>>)

IoIdle == IoInit

test_connection ==
    /\ io_run' \in TestRuns(server_input, token_input)
    /\ UNCHANGED <<apiVars, username_input, selected_config>>

\* the user types a user name and picks a configuration in the combo box
on_config_changed(u, c) ==
    /\ username_input' = u
    /\ selected_config' = c
    /\ UNCHANGED <<apiVars, io_run>>

fetch_repos ==
    /\ io_run' \in FetchRuns(username_input, selected_config)
    /\ UNCHANGED <<apiVars, username_input, selected_config>>

abort_previous_operation ==
    /\ io_run' \in AbortRuns
    /\ UNCHANGED <<apiVars, username_input, selected_config>>

IoNext ==
    \/ \E s \in ServerTexts, t \in TokenTexts :
           edit_inputs(<<>>, s, t) /\ UNCHANGED <<ioVars, notIo>>
    \/ test_connection /\ UNCHANGED notIo
    \/ \E u \in UsernameTexts, c \in {<<>>} \cup {<<x>> : x \in UserConfigs} :
           on_config_changed(u, c) /\ UNCHANGED notIo
    \/ fetch_repos /\ UNCHANGED notIo
    \/ abort_previous_operation /\ UNCHANGED notIo

(***************************************************************************)
(* settings.py SettingsPanel; main.py MainWindow.load_settings_from_file   *)
(***************************************************************************)

\* a settings file: missing, unreadable as JSON, or a JSON object
MissingFile == [state |-> "missing", dict |-> <<>>]
BrokenFile == [state |-> "broken", dict |-> <<>>]
JsonObject(d) == [state |-> "json", dict |-> d]

SettingsFiles ==
    {MissingFile, BrokenFile,
     JsonObject([theme |-> "dark"]),
     JsonObject([start_fullscreen |-> TRUE]),
     JsonObject([theme |-> "dark", start_fullscreen |-> TRUE]),
     JsonObject([theme |-> "blue", start_fullscreen |-> FALSE, window |-> "wide"])}

\* defaults with the dark theme
default_settingsDark == [start_fullscreen |-> FALSE, theme |-> "dark"]

\* default_settings of SettingsPanel.load_settings and reset_settings
default_settings == [start_fullscreen |-> FALSE, theme |-> "light"]

\* for key, value in default_settings.items(): if key not in settings: settings[key] = value
MergeDefaults(d, defaults) ==
    [k \in DOMAIN d \cup DOMAIN defaults |-> IF k \in DOMAIN d THEN d[k] ELSE defaults[k]]

\* SettingsPanel.load_settings
load_settings(f) ==
    IF f.state = "json" THEN MergeDefaults(f.dict, default_settings) ELSE default_settings

\* MainWindow.load_settings_from_file
load_settings_from_file(f) ==
    LET main_defaults == [start_fullscreen |-> FALSE, theme |-> "light"] IN
    IF f.state = "missing" THEN main_defaults
    ELSE IF f.state = "broken" THEN main_defaults
    ELSE [k \in DOMAIN f.dict \cup {"start_fullscreen", "theme"} |->
              IF k \in DOMAIN f.dict THEN f.dict[k] ELSE main_defaults[k]]

\* how a save can go: written; open() refused; the write broke off after open() emptied the file
SaveOutcomes == {"ok", "open failed", "write failed"}

\* save_settings: the file it leaves
save_settings(f, d, outcome) ==
    CASE outcome = "ok" -> JsonObject(d)
      [] outcome = "open failed" -> f
      [] OTHER -> BrokenFile

\* the combo box items
ThemeItems == <<"Light (Default)", "Dark Mode">>

\* apply_theme's combo update, and setup_ui's
ThemeIndex(theme) == IF theme = "dark" THEN 2 ELSE 1

StRun(handler, yes, io_error) == [handler |-> handler, yes |-> yes, io_error |-> io_error]

\* SettingsPanel.__init__ and MainWindow.load_settings on the same file
StInit ==
    /\ settings_file \in SettingsFiles
    /\ panel_settings = load_settings(settings_file)
    /\ fullscreen_checkbox = load_settings(settings_file).start_fullscreen
    /\ theme_combo = ThemeIndex(load_settings(settings_file).theme)
    /\ main_settings = load_settings_from_file(settings_file)
    /\ st_last = StRun("", FALSE, FALSE)

StIdle == StInit /\ settings_file = MissingFile

\* on_theme_changed, after the user picked the other item of the combo box
on_theme_changed(outcome) ==
    LET index == 3 - theme_combo
        theme_text == ThemeItems[index]
        changed == [panel_settings EXCEPT !.theme = IF theme_text = "Dark Mode" THEN "dark" ELSE "light"]
        saved == save_settings(settings_file, changed, outcome)
    IN
    /\ panel_settings' = changed
    /\ settings_file' = saved
    /\ theme_combo' = ThemeIndex(changed.theme)
    /\ main_settings' = load_settings_from_file(saved)
    /\ st_last' = StRun("on_theme_changed", FALSE, outcome # "ok")
    /\ UNCHANGED fullscreen_checkbox

\* on_fullscreen_toggled, after the user clicked the checkbox
on_fullscreen_toggled(outcome) ==
    LET checked == ~fullscreen_checkbox
        changed == [panel_settings EXCEPT !.start_fullscreen = checked]
        saved == save_settings(settings_file, changed, outcome)
    IN
    /\ fullscreen_checkbox' = checked
    /\ panel_settings' = changed
    /\ settings_file' = saved
    /\ main_settings' = load_settings_from_file(saved)
    /\ st_last' = StRun("on_fullscreen_toggled", FALSE, outcome # "ok")
    /\ UNCHANGED theme_combo

\* apply_settings: settings_changed is emitted only after a successful save
apply_settings(outcome) ==
    LET changed == [panel_settings EXCEPT
                        !.start_fullscreen = fullscreen_checkbox,
                        !.theme = IF ThemeItems[theme_combo] = "Dark Mode" THEN "dark" ELSE "light"]
        saved == save_settings(settings_file, changed, outcome)
    IN
    /\ panel_settings' = changed
    /\ settings_file' = saved
    /\ main_settings' = IF outcome = "ok" THEN load_settings_from_file(saved) ELSE main_settings
    /\ st_last' = StRun("apply_settings", FALSE, outcome # "ok")
    /\ UNCHANGED <<fullscreen_checkbox, theme_combo>>

\* reset_settings: setChecked(False) and setCurrentIndex(0) fire the two handlers above when
\* they change the widget, each with its own save; then reset_settings saves
reset_settings(yes, toggled_save, theme_save, outcome) ==
    LET fresh == default_settings
        after_toggle == IF fullscreen_checkbox THEN [fresh EXCEPT !.start_fullscreen = FALSE] ELSE fresh
        file1 == IF fullscreen_checkbox
                 THEN save_settings(settings_file, after_toggle, toggled_save) ELSE settings_file
        after_theme == IF theme_combo # 1 THEN [after_toggle EXCEPT !.theme = "light"] ELSE after_toggle
        file2 == IF theme_combo # 1 THEN save_settings(file1, after_theme, theme_save) ELSE file1
        saved == save_settings(file2, after_theme, outcome)
        io_error == \/ outcome # "ok"
                    \/ fullscreen_checkbox /\ toggled_save # "ok"
                    \/ theme_combo # 1 /\ theme_save # "ok"
    IN
    IF ~yes
    THEN /\ st_last' = StRun("reset_settings", FALSE, FALSE)
         /\ UNCHANGED <<settings_file, panel_settings, fullscreen_checkbox, theme_combo, main_settings>>
    ELSE /\ panel_settings' = after_theme
         /\ fullscreen_checkbox' = FALSE
         /\ theme_combo' = IF theme_combo # 1 THEN ThemeIndex(after_theme.theme) ELSE 1
         /\ settings_file' = saved
         /\ main_settings' = load_settings_from_file(saved)
         /\ st_last' = StRun("reset_settings", TRUE, io_error)

StNext ==
    \/ \E outcome \in SaveOutcomes : on_theme_changed(outcome) /\ UNCHANGED notSt
    \/ \E outcome \in SaveOutcomes : on_fullscreen_toggled(outcome) /\ UNCHANGED notSt
    \/ \E outcome \in SaveOutcomes : apply_settings(outcome) /\ UNCHANGED notSt
    \/ \E yes \in BOOLEAN :
           \E toggled_save \in Asked(yes /\ fullscreen_checkbox, SaveOutcomes, "ok") :
               \E theme_save \in Asked(yes /\ theme_combo # 1, SaveOutcomes, "ok") :
                   \E outcome \in Asked(yes, SaveOutcomes, "ok") :
                       reset_settings(yes, toggled_save, theme_save, outcome) /\ UNCHANGED notSt

(***************************************************************************)
(* repo_utils.py; repo_manager.py AddRepoPanel; user_manager.py            *)
(* download_selected                                                       *)
(***************************************************************************)

R1 == <<"r1">>
R2 == <<"r2">>
R3 == <<"r", "3">>
RepoNames == {R1, R2, R3}

\* the list file holding the given names
JsonList(names) == [state |-> "json", dict |-> names]

\* load_repos: the names of the records it returns
load_repos(f) == IF f.state = "json" THEN f.dict ELSE {}

\* update_repo_json: the file it leaves; it raises unless the outcome is ok
update_repo_json(dirs, f, outcome) ==
    CASE outcome = "ok" -> JsonList(dirs)
      [] outcome = "open failed" -> f
      [] OTHER -> BrokenFile

UrlTexts ==
    {<<>>, <<" ">>,
     <<"https://h/u/", "r1", ".git">>,
     <<" ", "https://h/u/", "r2", " ">>,
     <<"https://h/u/", "r", ".git", "3">>,
     <<"https://h/u/", "r1", "/">>}

\* url.split("/")[-1]
SlashTokens == {"https://h/u/", "/"}
LastSegment(t) ==
    LET cuts == {i \in DOMAIN t : t[i] \in SlashTokens} IN
    IF cuts = {} THEN t
    ELSE SubSeq(t, (CHOOSE i \in cuts : \A j \in cuts : j <= i) + 1, Len(t))

\* .replace(".git", "")
WithoutGit(t) == SelectSeq(t, LAMBDA x : x # ".git")

\* repo_path.exists(): BASE_DIR / "" is BASE_DIR itself
PathExists(name) == name = <<>> \/ name \in base_dir

CloneOutcomes == {"ok", "failed", "killed"}

\* the directories after a clone into BASE_DIR / name; a killed git leaves its directory behind
Cloned(dirs, name, outcome) == IF outcome = "failed" THEN dirs ELSE dirs \cup {name}

\* a handler run; answer: the button picked in 'Confirm Removal', "" when it was not shown;
\* rmtree: whether shutil.rmtree was called
RmRun(handler, result, emitted, before, answer, rmtree) ==
    [handler |-> handler, result |-> result, emitted |-> emitted, before |-> before,
     answer |-> answer, rmtree |-> rmtree]

\* AddRepoPanel.__init__
RmInit ==
    /\ base_dir \in SUBSET {R1, R2}
    /\ repo_storage \in {MissingFile, BrokenFile} \cup {JsonList(names) : names \in SUBSET {R1, R2}}
    /\ panel_repo_list = load_repos(repo_storage)
    /\ rm_last = RmRun("", "", 0, MissingFile, "", FALSE)

RmIdle == RmInit /\ base_dir = {} /\ repo_storage = MissingFile

\* AddRepoPanel.add_repo
add_repo(url_text, clone, write) ==
    LET url == Strip(url_text)
        repo_name == WithoutGit(LastSegment(url))
        cloned == Cloned(base_dir, repo_name, clone)
        saved == update_repo_json(cloned, repo_storage, write)
        ran(result, emitted) == RmRun("add_repo", result, emitted, repo_storage, "", FALSE)
    IN
    IF url = <<>> \/ PathExists(repo_name)
    THEN /\ rm_last' = ran("refused", 0)
         /\ UNCHANGED <<base_dir, repo_storage, panel_repo_list>>
    ELSE IF clone # "ok"
    THEN /\ base_dir' = cloned
         /\ rm_last' = ran("failed", 0)
         /\ UNCHANGED <<repo_storage, panel_repo_list>>
    ELSE IF write # "ok"
    THEN /\ base_dir' = cloned
         /\ repo_storage' = saved
         /\ rm_last' = ran("failed", 0)
         /\ UNCHANGED panel_repo_list
    ELSE /\ base_dir' = cloned
         /\ repo_storage' = saved
         /\ panel_repo_list' = load_repos(saved)
         /\ rm_last' = ran("success", 1)

\* AddRepoPanel.remove_selected_repo; selected is <<>> with no current item
remove_selected_repo(selected, yes, rmtree_ok, write) ==
    LET repo_name == selected[1]
        removed == base_dir \ {repo_name}
        saved == update_repo_json(removed, repo_storage, write)
        ran(result, emitted) ==
            RmRun("remove_selected_repo", result, emitted, repo_storage,
                  IF result = "refused" THEN "" ELSE IF yes THEN "Yes" ELSE "No",
                  result \notin {"refused", "declined"})
    IN
    IF selected = <<>>
    THEN /\ rm_last' = ran("refused", 0)
         /\ UNCHANGED <<base_dir, repo_storage, panel_repo_list>>
    ELSE IF ~yes
    THEN /\ rm_last' = ran("declined", 0)
         /\ UNCHANGED <<base_dir, repo_storage, panel_repo_list>>
    ELSE IF repo_name \notin base_dir \/ ~rmtree_ok
    THEN /\ rm_last' = ran("raised", 0)
         /\ UNCHANGED <<base_dir, repo_storage, panel_repo_list>>
    ELSE IF write # "ok"
    THEN /\ base_dir' = removed
         /\ repo_storage' = saved
         /\ rm_last' = ran("raised", 0)
         /\ UNCHANGED panel_repo_list
    ELSE /\ base_dir' = removed
         /\ repo_storage' = saved
         /\ panel_repo_list' = load_repos(saved)
         /\ rm_last' = ran("success", 1)

\* UserManagerDialogue.download_selected: clones maps each new repository to its clone's outcome
download_selected(selected_repos, username_text, selected, clones, write) ==
    LET new_repos == selected_repos \ base_dir
        cloned == base_dir \cup {n \in new_repos : clones[n] # "failed"}
        downloaded == {n \in new_repos : clones[n] = "ok"}
        saved == update_repo_json(cloned, repo_storage, write)
        ran(result, emitted) == RmRun("download_selected", result, emitted, repo_storage, "", FALSE)
    IN
    IF selected_repos = {} \/ Strip(username_text) = <<>> \/ selected = <<>> \/ new_repos = {}
    THEN /\ rm_last' = ran("refused", 0)
         /\ UNCHANGED <<base_dir, repo_storage, panel_repo_list>>
    ELSE IF downloaded = {}
    THEN /\ base_dir' = cloned
         /\ rm_last' = ran("failed", 0)
         /\ UNCHANGED <<repo_storage, panel_repo_list>>
    ELSE IF write # "ok"
    THEN /\ base_dir' = cloned
         /\ repo_storage' = saved
         /\ rm_last' = ran("escaped", 0)
         /\ UNCHANGED panel_repo_list
    ELSE /\ base_dir' = cloned
         /\ repo_storage' = saved
         /\ rm_last' = ran("success", 1)
         /\ UNCHANGED panel_repo_list

RmNext ==
    \/ \E url_text \in UrlTexts, clone \in CloneOutcomes, write \in SaveOutcomes :
           add_repo(url_text, clone, write) /\ UNCHANGED notRm
    \/ \E selected \in {<<>>} \cup {<<n>> : n \in panel_repo_list}, yes, rmtree_ok \in BOOLEAN,
          write \in SaveOutcomes :
           remove_selected_repo(selected, yes, rmtree_ok, write) /\ UNCHANGED notRm
    \/ \E selected_repos \in SUBSET RepoNames, username_text \in UsernameTexts,
          selected \in {<<>>, <<Config(<<"a">>, <<"h">>, <<"t">>)>>} :
           \E clones \in [IF Strip(username_text) # <<>> /\ selected # <<>>
                           THEN selected_repos \ base_dir ELSE {} -> CloneOutcomes] :
               \E write \in Asked(\E n \in DOMAIN clones : clones[n] = "ok", SaveOutcomes, "ok") :
                   download_selected(selected_repos, username_text, selected, clones, write)
                       /\ UNCHANGED notRm

(***************************************************************************)
(* git_logs_viewer.py: GitLogsThread and GitLogsViewer                     *)
(***************************************************************************)

\* the commits of the repository: c1 is the root, c2 and d2 its children, c3 the child of c2
ParentOf(c) ==
    CASE c = "c3" -> "c2"
      [] c = "c2" -> "c1"
      [] c = "d2" -> "c1"
      [] OTHER -> ""

\* the commits that changed the file the viewer is opened on
TouchesFile == {"c1", "c3"}

\* repo.iter_commits(rev): the commit and its ancestors, newest first (max_count = 100 is not reached)
RECURSIVE iter_commits(_)
iter_commits(c) == IF c = "" THEN <<>> ELSE <<c>> \o iter_commits(ParentOf(c))

GitState(tips, head, at, status, op) ==
    [tips |-> tips, head |-> head, at |-> at, status |-> status, op |-> op]

\* the operation under way and the status codes it has left
Conditions ==
    {<<"", {}>>, <<"", {" M"}>>, <<"merge", {"UU"}>>, <<"merge", {"AU", " M"}>>,
     <<"revert", {"UD"}>>, <<"cherry-pick", {"DD"}>>}

\* the branches and HEAD of the repositories the viewer is opened on
Checkouts ==
    {<<[b \in {"main"} |-> "c3"], "main", "c3">>,
     <<[b \in {"dev", "main"} |-> IF b = "dev" THEN "d2" ELSE "c3"], "dev", "d2">>,
     <<[b \in {"dev", "topic"} |-> IF b = "dev" THEN "d2" ELSE "c3"], "topic", "c3">>,
     <<[b \in {"dev", "master"} |-> IF b = "dev" THEN "c3" ELSE "c2"], "dev", "c3">>,
     <<[b \in {"dev"} |-> "c3"], "dev", "c3">>,
     <<[b \in {"main"} |-> "c3"], Detached, "c2">>}

\* GitLogsThread.run, lines 32-54: the revision whose history is listed
main_branch(g) ==
    LET names == DOMAIN g.tips IN
    IF "main" \in names THEN g.tips["main"]
    ELSE IF "master" \in names THEN g.tips["master"]
    ELSE IF g.head # Detached THEN g.tips[g.head]
    ELSE IF names # {} THEN g.tips[FirstListed(names)]
    ELSE g.at

\* GitLogsThread.run: the commits it emits with logs_ready
LogsOf(g, file) ==
    IF file THEN SelectSeq(iter_commits(main_branch(g)), LAMBDA c : c \in TouchesFile)
    ELSE iter_commits(main_branch(g))

\* one dialog or one Git command of a handler, with the button picked or how the command ended
Ev(kind, name, answer) == [kind |-> kind, name |-> name, answer |-> answer]
GitCmd(cmd, ok) == Ev("git", cmd, IF ok THEN "ok" ELSE "failed")
Confirm(title, yes) == Ev("question", title, IF yes THEN "Yes" ELSE "No")
Shown(kind, title) == Ev(kind, title, "")

\* what a handler or a part of it does: the repository it leaves, its events, whether it reloads the logs
Eff(g, trace, reload) == [g |-> g, trace |-> trace, reload |-> reload]
Then(trace, e) == Eff(e.g, trace \o e.trace, e.reload)

\* git checkout <hash>: refused while the index holds unmerged paths
checkout(g, hash, ok) ==
    IF ok /\ g.status \cap UnmergedCodes = {}
    THEN Eff([g EXCEPT !.head = Detached, !.at = hash], <<GitCmd("checkout", TRUE)>>, TRUE)
    ELSE Eff(g, <<GitCmd("checkout", FALSE)>>, FALSE)

\* git checkout <hash> -- <file>
checkout_file(g, hash, ok) ==
    IF ok
    THEN Eff([g EXCEPT !.status = (@ \ UnmergedCodes) \cup {"M "}], <<GitCmd("checkout --", TRUE)>>, TRUE)
    ELSE Eff(g, <<GitCmd("checkout --", FALSE)>>, FALSE)

\* git reset --hard <hash>: moves the current branch, or a detached HEAD, and cleans index and tree
reset_hard(g, hash, ok) ==
    IF ok
    THEN Eff(GitState(IF g.head = Detached THEN g.tips ELSE [g.tips EXCEPT ![g.head] = hash],
                      g.head, hash, {}, ""),
             <<GitCmd("reset --hard", TRUE)>>, TRUE)
    ELSE Eff(g, <<GitCmd("reset --hard", FALSE)>>, FALSE)

\* with try: command, reload, show_success; except: show_error
Reported(e) ==
    Then(<<>>, Eff(e.g, e.trace \o <<Shown(IF e.reload THEN "information" ELSE "warning",
                                          IF e.reload THEN "Success" ELSE "Error")>>, e.reload))

\* GitLogsViewer.abort_previous_operation: revert, merge, cherry-pick --abort, the first that succeeds
viewer_abort_previous_operation(g) ==
    LET hit == {i \in 1..3 : AbortOrder[i] = g.op}
        n == IF hit = {} THEN 3 ELSE CHOOSE i \in hit : TRUE
        tried == [i \in 1..n |-> GitCmd(AbortCmds[i], AbortOrder[i] = g.op)]
    IN IF hit = {} THEN Eff(g, tried \o <<Shown("warning", "Error")>>, FALSE)
       ELSE Eff([g EXCEPT !.status = @ \ UnmergedCodes, !.op = ""],
                tried \o <<Shown("information", "Success")>>, FALSE)

\* reset_repository_state
reset_repository_state(g, yes, ok) ==
    IF ~yes THEN Eff(g, <<Confirm("Reset Repository", FALSE)>>, FALSE)
    ELSE Then(<<Confirm("Reset Repository", TRUE)>>, Reported(reset_hard(g, g.at, ok)))

\* handle_unmerged_files_error
handle_unmerged_files_error(g, choice, yes, ok) ==
    Then(<<Ev("warning", "Unmerged Files Detected", choice)>>,
         CASE choice = "Resolve Conflicts" -> Eff(g, <<Shown("information", "Resolve Conflicts")>>, FALSE)
           [] choice = "Abort Previous Operation" -> viewer_abort_previous_operation(g)
           [] choice = "Reset Repository" -> reset_repository_state(g, yes, ok)
           [] OTHER -> Eff(g, <<>>, FALSE))

\* check_and_handle_unmerged_files: whether it finds unmerged files; a status that raises finds none
FindsUnmerged(g, status_ok) == status_ok /\ g.status \cap CheckedCodes # {}

\* safe_revert
safe_revert_eff(g, file, commit, status_ok, choice, yes, ok) ==
    IF commit = "" THEN Eff(g, <<Shown("warning", "Error")>>, FALSE)
    ELSE Then(<<GitCmd("status --porcelain", status_ok)>>,
              IF FindsUnmerged(g, status_ok) THEN handle_unmerged_files_error(g, choice, yes, ok)
              ELSE IF ~yes THEN Eff(g, <<Confirm("Safe Revert (Keep History)", FALSE)>>, FALSE)
              ELSE Then(<<Confirm("Safe Revert (Keep History)", TRUE)>>,
                        Reported(IF file THEN checkout_file(g, commit, ok) ELSE checkout(g, commit, ok))))

\* destructive_revert
destructive_revert_eff(g, file, commit, status_ok, choice, yes, ok) ==
    IF commit = "" THEN Eff(g, <<Shown("warning", "Error")>>, FALSE)
    ELSE Then(<<GitCmd("status --porcelain", status_ok)>>,
              IF FindsUnmerged(g, status_ok) THEN handle_unmerged_files_error(g, choice, yes, ok)
              ELSE IF ~yes THEN Eff(g, <<Confirm("Destructive Revert (Delete History)", FALSE)>>, FALSE)
              ELSE Then(<<Confirm("Destructive Revert (Delete History)", TRUE)>>,
                        Reported(IF file THEN checkout_file(g, commit, ok) ELSE reset_hard(g, commit, ok))))

\* a handler run: its events, the commit selected, the repository and the list before it,
\* and whether the list was on show (not being reloaded)
RvRun(handler, trace, target, before, listed, shown) ==
    [handler |-> handler, trace |-> trace, target |-> target, before |-> before,
     listed |-> listed, shown |-> shown]

\* GitLogsViewer.__init__: the repository is opened and the first load is started
RvInit ==
    /\ \E c \in Checkouts, s \in Conditions : rv_git = GitState(c[1], c[2], c[3], s[2], s[1])
    /\ rv_file \in BOOLEAN
    /\ current_commits = <<>>
    /\ selected_commit = ""
    /\ rv_loading = TRUE
    /\ rv_last = RvRun("", <<>>, "", rv_git, <<>>, FALSE)

RvIdle ==
    /\ RvInit
    /\ rv_git = GitState([b \in {"main"} |-> "c3"], "main", "c3", {}, "")
    /\ rv_file = FALSE

\* GitLogsThread.run reads the repository, logs_ready reaches display_git_logs
display_git_logs ==
    LET commits == LogsOf(rv_git, rv_file) IN
    /\ rv_loading
    /\ current_commits' = commits
    /\ selected_commit' = IF commits = <<>> THEN "" ELSE commits[1]
    /\ rv_loading' = FALSE
    /\ UNCHANGED <<rv_git, rv_file, rv_last>>

\* on_commit_selected: a click on a row of the list, which load_git_logs empties while it loads
on_commit_selected(i) ==
    /\ ~rv_loading
    /\ i \in DOMAIN current_commits
    /\ selected_commit' = current_commits[i]
    /\ UNCHANGED <<rv_git, rv_file, current_commits, rv_loading, rv_last>>

\* a button handler has run
RvRan(handler, e) ==
    /\ rv_git' = e.g
    /\ rv_loading' = (rv_loading \/ e.reload)
    /\ rv_last' = RvRun(handler, e.trace, selected_commit, rv_git, current_commits, ~rv_loading)
    /\ UNCHANGED <<rv_file, current_commits, selected_commit>>

safe_revert(status_ok, choice, yes, ok) ==
    RvRan("safe_revert", safe_revert_eff(rv_git, rv_file, selected_commit, status_ok, choice, yes, ok))

destructive_revert(status_ok, choice, yes, ok) ==
    RvRan("destructive_revert",
          destructive_revert_eff(rv_git, rv_file, selected_commit, status_ok, choice, yes, ok))

\* the answers a revert button can be given in the current state
RevertInputs ==
    {<<status_ok, choice, yes, ok>> \in BOOLEAN \X UnmergedChoices \X BOOLEAN \X BOOLEAN :
         /\ selected_commit = "" => status_ok /\ choice = "Cancel" /\ ~yes /\ ok
         /\ ~FindsUnmerged(rv_git, status_ok) => choice = "Cancel"
         /\ FindsUnmerged(rv_git, status_ok) /\ choice # "Reset Repository" => ~yes
         /\ ~yes => ok}

RvNext ==
    \/ display_git_logs /\ UNCHANGED notRv
    \/ \E i \in 1..3 : on_commit_selected(i) /\ UNCHANGED notRv
    \/ \E in \in RevertInputs : safe_revert(in[1], in[2], in[3], in[4]) /\ UNCHANGED notRv
    \/ \E in \in RevertInputs : destructive_revert(in[1], in[2], in[3], in[4]) /\ UNCHANGED notRv

(***************************************************************************)
(* git_operations.py: GitOperationsPanel.push_changes and the slots of     *)
(* its GitPushThread                                                       *)
(***************************************************************************)

PushLabel == "Push to Server"
PushingLabel == "Pushing..."

PbRun(handler, started, remote, branch) ==
    [handler |-> handler, started |-> started, remote |-> remote, branch |-> branch]

\* setup_ui, lines 508-535
PbInit ==
    /\ pb_git_repo \in BOOLEAN
    /\ remote_text = ""
    /\ branch_text = ""
    /\ push_btn_enabled = TRUE
    /\ push_btn_text = PushLabel
    /\ push_progress_visible = FALSE
    /\ pb_running = 0
    /\ pb_seen = 0
    /\ pb_last = PbRun("", FALSE, "", "")

PbIdle == PbInit /\ pb_git_repo = FALSE

\* refresh_remotes, or the user's choice in the two combo boxes: a remote and a branch, or none
select_remote_branch(remote, branch) ==
    /\ pb_git_repo
    /\ remote_text' = remote
    /\ branch_text' = branch
    /\ UNCHANGED <<pb_git_repo, push_btn_enabled, push_btn_text, push_progress_visible, pb_running,
                   pb_seen, pb_last, thrVars>>

\* push_changes, the slot of push_btn.clicked: a disabled button emits no clicked
push_changes ==
    /\ push_btn_enabled
    /\ IF ~pb_git_repo \/ remote_text = "" \/ branch_text = ""
       THEN /\ pb_last' = PbRun("push_changes", FALSE, remote_text, branch_text)
            /\ UNCHANGED <<push_btn_enabled, push_btn_text, push_progress_visible, pb_running, pb_seen,
                           thrVars>>
       ELSE /\ push_btn_enabled' = FALSE
            /\ push_btn_text' = PushingLabel
            /\ push_progress_visible' = TRUE
            \* GitPushThread(...).start()
            /\ thr_kind' = "GitPushThread"
            /\ thr_pc' = "run"
            /\ thr_signals' = <<>>
            /\ thr_ahead' = 0
            /\ pb_running' = pb_running + 1
            /\ pb_seen' = 0
            /\ pb_last' = PbRun("push_changes", TRUE, remote_text, branch_text)
            /\ UNCHANGED <<thr_branches, thr_head>>
    /\ UNCHANGED <<pb_git_repo, remote_text, branch_text>>

\* a step of GitPushThread.run; the thread is counted until its run returns
PushThreadStep(step) ==
    /\ step
    /\ pb_running' = IF thr_pc' = "finished" THEN pb_running - 1 ELSE pb_running
    /\ UNCHANGED <<pb_git_repo, remote_text, branch_text, push_btn_enabled, push_btn_text,
                   push_progress_visible, pb_seen, pb_last>>

\* push_completed that leaves the button as it is
push_finishedKeepsDisabled(slot) ==
    /\ push_progress_visible' = FALSE
    /\ pb_last' = PbRun(slot, FALSE, remote_text, branch_text)
    /\ UNCHANGED <<push_btn_enabled, push_btn_text>>

\* push_completed and push_failed: the same three widget calls
push_finished(slot) ==
    /\ push_progress_visible' = FALSE
    /\ push_btn_enabled' = TRUE
    /\ push_btn_text' = PushLabel
    /\ pb_last' = PbRun(slot, FALSE, remote_text, branch_text)

\* the event loop hands the thread's next signal to its slot
deliver_signal ==
    /\ pb_seen < Len(thr_signals)
    /\ pb_seen' = pb_seen + 1
    /\ IF thr_signals[pb_seen + 1].sig = "progress_update"
       THEN \* update_push_progress
            /\ pb_last' = PbRun("update_push_progress", FALSE, remote_text, branch_text)
            /\ UNCHANGED <<push_btn_enabled, push_btn_text, push_progress_visible>>
       ELSE push_finished(thr_signals[pb_seen + 1].sig)
    /\ UNCHANGED <<pb_git_repo, remote_text, branch_text, pb_running, thrVars>>

PushThreadNext ==
    \/ PushThreadStep(GitPushThread_init)
    \/ \E ok \in BOOLEAN, n \in 0..MaxAhead, msg \in PushErrTexts :
           PushThreadStep(GitPushThread_check(ok, n, msg))
    \/ \E ok \in BOOLEAN, msg \in PushErrTexts : PushThreadStep(GitPushThread_push(ok, msg))

PbNext ==
    \/ \E remote \in {"", "origin"}, branch \in {"", "main"} :
           select_remote_branch(remote, branch) /\ UNCHANGED notPush
    \/ push_changes /\ UNCHANGED notPush
    \/ PushThreadNext /\ UNCHANGED notPush
    \/ deliver_signal /\ UNCHANGED notPush

(***************************************************************************)
(* git_operations.py: GitOperationsPanel.refresh_git_log / display_git_log *)
(* git_logs_viewer.py: GitLogsViewer.load_git_logs / display_git_logs      *)
(* and the worker threads they start                                       *)
(***************************************************************************)

LogPanels == {"GitOperationsPanel", "GitLogsViewer"}

\* two repositories and a directory that is none
LogRepos == {"repoA", "repoB"}
LogPaths == LogRepos \cup {"plain"}

\* Repo(path) in a thread raises for a directory that is no repository
OpensRepo(path) == path \in LogRepos

MaxRefreshes == 3
MaxCommits == 2

\* what the user leaves in max_commits_input: the default, or no number
MaxCommitsTexts == {"50", "x"}

\* int(self.max_commits_input.text() or "50"); 0 stands for ValueError
ParseMaxCommits(text) ==
    CASE text = "" -> 50
      [] text = "50" -> 50
      [] OTHER -> 0

\* repo.iter_commits(max_count=...): the newest commit first
LogCommits(path, n, max_count) ==
    [i \in 1..(IF n < max_count THEN n ELSE max_count) |-> [repo |-> path, no |-> n + 1 - i]]

LogThread(id, path, max_count) ==
    [id |-> id, path |-> path, max_commits |-> max_count, pc |-> "started", sig |-> "", commits |-> <<>>]

LogEvent(id, sig, commits) == [id |-> id, sig |-> sig, commits |-> commits]

Undisplayed ==
    \/ \E i \in DOMAIN lg_threads : lg_threads[i].pc # "finished"
    \/ lg_events # <<>>

LgInit ==
    /\ lg_panel \in LogPanels
    /\ lg_repo_path = IF lg_panel = "GitLogsViewer" THEN "repoA" ELSE ""
    /\ lg_git_repo = lg_repo_path
    /\ max_commits_input = "50"
    /\ lg_commits \in [LogRepos -> 1..MaxCommits]
    \* GitLogsViewer.__init__ ends with load_git_logs()
    /\ lg_threads = IF lg_panel = "GitLogsViewer" THEN <<LogThread(1, "repoA", 50)>> ELSE <<>>
    /\ lg_events = <<>>
    /\ log_display = <<>>
    /\ lg_shown = 0
    /\ lg_before = 0
    /\ lg_overlap = FALSE
    /\ lg_crashed = FALSE

LgIdle == LgInit /\ lg_panel = "GitOperationsPanel" /\ lg_commits = [p \in LogRepos |-> 1]

\* self.log_thread = GitLogThread(...) drops the only reference to the thread before it. A
\* thread whose run was not entered yet is deleted on the spot, running: Qt aborts, or the build
\* keeps it alive. A signal that thread has queued is delivered, or goes with its sender.
Replaced(events) ==
    IF lg_threads = <<>> THEN {[crashed |-> FALSE, events |-> events]}
    ELSE LET old == lg_threads[Len(lg_threads)]
             kept == {events, SelectSeq(events, LAMBDA e : e.id # old.id)}
         IN {[crashed |-> c, events |-> q] :
                 c \in IF old.pc = "started" THEN BOOLEAN ELSE {FALSE}, q \in kept}

\* the thread creation common to refresh_git_log and load_git_logs
StartLogThread(path, max_count) ==
    /\ Len(lg_threads) < MaxRefreshes
    /\ \E r \in Replaced(lg_events) :
           /\ lg_crashed' = r.crashed
           /\ lg_events' = r.events
    /\ lg_threads' = Append(lg_threads, LogThread(Len(lg_threads) + 1, path, max_count))
    /\ lg_overlap' = (lg_overlap \/ Undisplayed)

\* refresh_git_log
lg_refresh_git_log ==
    IF lg_repo_path = "" \/ ParseMaxCommits(max_commits_input) = 0
    THEN UNCHANGED <<lg_threads, lg_events, lg_overlap, lg_crashed>>
    ELSE StartLogThread(lg_repo_path, ParseMaxCommits(max_commits_input))

\* the Refresh button of the log tab
refresh_clicked ==
    /\ ~lg_crashed
    /\ lg_panel = "GitOperationsPanel"
    /\ lg_repo_path # ""
    /\ lg_refresh_git_log
    /\ UNCHANGED <<lg_panel, lg_repo_path, lg_git_repo, max_commits_input, lg_commits, log_display, lg_shown,
                   lg_before>>

\* set_repo: refresh_all_data runs only when Repo(repo_path) opened
lg_set_repo(path) ==
    /\ ~lg_crashed
    /\ lg_panel = "GitOperationsPanel"
    /\ lg_repo_path' = path
    /\ IF OpensRepo(path)
       THEN IF ParseMaxCommits(max_commits_input) = 0
            THEN UNCHANGED <<lg_threads, lg_events, lg_overlap, lg_crashed>>
            ELSE StartLogThread(path, ParseMaxCommits(max_commits_input))
       ELSE UNCHANGED <<lg_threads, lg_events, lg_overlap, lg_crashed>>
    /\ lg_git_repo' = IF OpensRepo(path) THEN path ELSE lg_git_repo
    /\ UNCHANGED <<lg_panel, max_commits_input, lg_commits, log_display, lg_shown, lg_before>>

\* the user types in max_commits_input
edit_max_commits(text) ==
    /\ ~lg_crashed
    /\ lg_panel = "GitOperationsPanel"
    /\ text # max_commits_input
    /\ max_commits_input' = text
    /\ UNCHANGED <<lg_panel, lg_repo_path, lg_git_repo, lg_commits, lg_threads, lg_events, log_display,
                   lg_shown, lg_before, lg_overlap, lg_crashed>>

\* load_git_logs: the list is cleared at once
load_git_logs ==
    /\ ~lg_crashed
    /\ lg_panel = "GitLogsViewer"
    /\ StartLogThread(lg_repo_path, 50)
    /\ log_display' = <<>>
    /\ lg_before' = lg_shown
    /\ lg_shown' = 0
    /\ UNCHANGED <<lg_panel, lg_repo_path, lg_git_repo, max_commits_input, lg_commits>>

\* stage_and_commit with a message and a change to commit: the commit goes to self.git_repo,
\* the refresh reads self.repo_path
lg_stage_and_commit ==
    /\ ~lg_crashed
    /\ lg_panel = "GitOperationsPanel"
    /\ lg_git_repo # ""
    /\ lg_commits[lg_git_repo] < MaxCommits
    /\ lg_commits' = [lg_commits EXCEPT ![lg_git_repo] = @ + 1]
    /\ lg_refresh_git_log
    /\ UNCHANGED <<lg_panel, lg_repo_path, lg_git_repo, max_commits_input, log_display, lg_shown,
                   lg_before>>

\* GitLogsViewer.destructive_revert of the whole repository, confirmed: git reset --hard to a
\* commit of the list, then load_git_logs
lg_destructive_revert(row) ==
    /\ ~lg_crashed
    /\ lg_panel = "GitLogsViewer"
    /\ row \in DOMAIN log_display
    /\ log_display[row].no <= lg_commits[lg_repo_path]
    /\ lg_commits' = [lg_commits EXCEPT ![lg_repo_path] = log_display[row].no]
    /\ StartLogThread(lg_repo_path, 50)
    /\ log_display' = <<>>
    /\ lg_before' = lg_shown
    /\ lg_shown' = 0
    /\ UNCHANGED <<lg_panel, lg_repo_path, lg_git_repo, max_commits_input>>

\* GitLogThread.run up to the emit: the repository is read when the thread gets to it
LogThread_read(i) ==
    /\ ~lg_crashed
    /\ lg_threads[i].pc = "started"
    /\ LET t == lg_threads[i]
       IN lg_threads' = [lg_threads EXCEPT ![i] =
              IF OpensRepo(t.path)
              THEN [t EXCEPT !.pc = "read", !.sig = "log_ready",
                             !.commits = LogCommits(t.path, lg_commits[t.path], t.max_commits)]
              ELSE [t EXCEPT !.pc = "read", !.sig = "error_occurred"]]
    /\ UNCHANGED <<lg_panel, lg_repo_path, lg_git_repo, max_commits_input, lg_commits, lg_events, log_display,
                   lg_shown, lg_before, lg_overlap, lg_crashed>>

\* the emit, queued to the GUI thread, and the return of run. A replaced thread loses its last
\* reference here and is deleted later by the GUI thread, which aborts if it still runs then.
LogThread_emit(i) ==
    /\ ~lg_crashed
    /\ lg_threads[i].pc = "read"
    /\ lg_threads' = [lg_threads EXCEPT ![i].pc = "finished"]
    /\ lg_events' = Append(lg_events, LogEvent(i, lg_threads[i].sig, lg_threads[i].commits))
    /\ lg_crashed' \in (IF i < Len(lg_threads) THEN BOOLEAN ELSE {FALSE})
    /\ UNCHANGED <<lg_panel, lg_repo_path, lg_git_repo, max_commits_input, lg_commits, log_display, lg_shown,
                   lg_before, lg_overlap>>

\* display_git_log / display_git_logs
display_git_log(id, commits) ==
    /\ log_display' = commits
    /\ lg_before' = lg_shown
    /\ lg_shown' = id

\* the event loop hands the next queued signal to its slot: display_git_log or show_error
lg_deliver ==
    /\ ~lg_crashed
    /\ lg_events # <<>>
    /\ lg_events' = Tail(lg_events)
    /\ IF Head(lg_events).sig = "log_ready"
       THEN display_git_log(Head(lg_events).id, Head(lg_events).commits)
       ELSE UNCHANGED <<log_display, lg_shown, lg_before>>
    /\ UNCHANGED <<lg_panel, lg_repo_path, lg_git_repo, max_commits_input, lg_commits, lg_threads, lg_overlap,
                   lg_crashed>>

LgNext ==
    \/ refresh_clicked /\ UNCHANGED notLg
    \/ \E path \in LogPaths : lg_set_repo(path) /\ UNCHANGED notLg
    \/ \E text \in MaxCommitsTexts : edit_max_commits(text) /\ UNCHANGED notLg
    \/ load_git_logs /\ UNCHANGED notLg
    \/ lg_stage_and_commit /\ UNCHANGED notLg
    \/ \E row \in 1..MaxCommits : lg_destructive_revert(row) /\ UNCHANGED notLg
    \/ \E i \in DOMAIN lg_threads : LogThread_read(i) /\ UNCHANGED notLg
    \/ \E i \in DOMAIN lg_threads : LogThread_emit(i) /\ UNCHANGED notLg
    \/ lg_deliver /\ UNCHANGED notLg

(***************************************************************************)
(* git_operations.py: the revert of the panel's repository that the        *)
(* 'Continue Revert' button stands for                                     *)
(***************************************************************************)

RevertStates == {"none", "stopped", "awaiting"}

RbInit == rb_revert = "none"

RbIdle == RbInit

notRevertButton == <<apiVars, thrVars, winVars, rpVars, ioVars, stVars, rmVars, rvVars, pbVars, lgVars>>

\* the handler that just ran ended with show_success
ReportedSuccess == gp_dialogs' # <<>> /\ gp_dialogs'[Len(gp_dialogs')] \in
                       {show_success(t) : t \in {"Revert operation skipped", "Revert operation aborted",
                                                  "reset completed successfully"}}

\* the sequencer of the repository after the handler that just ran: git revert stops at a
\* conflict, and revert --continue / --skip / --abort and git reset end the stopped revert
RevertAfter ==
    LET inv == gp_last' IN
    CASE inv.handler = "revert_commit" /\ inv.choice # "" ->
             IF inv.choice = "Resolve Conflicts" THEN "awaiting"
             ELSE IF ReportedSuccess THEN "none"
             ELSE IF rb_revert = "awaiting" THEN "awaiting" ELSE "stopped"
      [] inv.handler = "continue_revert" /\ inv.ok -> "none"
      [] inv.handler = "reset_repo" /\ ReportedSuccess -> "none"
      [] OTHER -> rb_revert

Tracked == rb_revert' = RevertAfter /\ UNCHANGED notRevertButton

Untracked == UNCHANGED rb_revert /\ UNCHANGED notRevertButton

\* set_repo opens the repository it had, or another one, which has no revert going on or one
\* that was stopped elsewhere
Opened ==
    /\ rb_revert' \in (IF gp_last'.ok THEN {rb_revert, "none", "stopped"} ELSE {rb_revert})
    /\ UNCHANGED notRevertButton

RbNext ==
    \/ \E ok \in BOOLEAN : \E st \in StatusAsked(ok) : set_repo(ok, {"fatal"}, st) /\ Opened
    \/ \E st \in StatusResults : refresh_git_status(st) /\ Tracked
    \/ refresh_git_log /\ Tracked
    \/ \E i \in 1..2 : select_status_row(i) /\ Untracked
    \/ \E h \in HashTexts, m \in MessageTexts, n_ok \in BOOLEAN :
           edit_panel_inputs(h, m, n_ok) /\ Untracked
    \/ \E ok \in BOOLEAN : \E st \in StatusAsked(ok) :
           stage_all_changes(ok, {"fatal"}, st) /\ Tracked
    \/ \E fail \in Asked(HasMessage, FailPoints, "none") :
           \E out0 \in Asked(HasMessage /\ fail # "status", PorcelainOutputs, <<>>) :
               \E st \in StatusAsked(fail = "none" /\ ~NoChanges(out0)) :
                   stage_and_commit(fail, {"fatal"}, out0, st) /\ Tracked
    \/ \E fail \in Asked(HasMessage, FailPoints, "none") :
           \E out0 \in Asked(HasMessage /\ fail # "status", PorcelainOutputs, <<>>) :
               \E st \in StatusAsked(fail = "none" /\ ~NoChanges(out0)) :
                   \E yes \in Asked(UnstagedFlag(out0), BOOLEAN, FALSE) :
                       commit_changes(fail, {"fatal"}, out0, yes, st) /\ Tracked
    \/ \E yes \in Asked(HasFileRow, BOOLEAN, FALSE) :
           \E ok \in Asked(yes, BOOLEAN, TRUE) : \E st \in StatusAsked(yes /\ ok) :
               revert_file(yes, ok, {"fatal"}, st) /\ Tracked
    \/ revert_commit /\ Tracked
    \/ \E fail \in {"none", "add", "revert"} :
           \E st \in StatusAsked(fail = "none") :
               continue_revert(fail, {"fatal"}, st) /\ Tracked
    \/ \E reset_type \in {"soft", "hard"}, yes \in Asked(HasHash, BOOLEAN, FALSE) :
           \E ok \in Asked(yes, BOOLEAN, TRUE) : \E st \in StatusAsked(yes /\ ok) :
               reset_repo(reset_type, yes, ok, {"fatal"}, st) /\ Tracked

(***************************************************************************)
(* Specifications: one per component, the others at rest                   *)
(***************************************************************************)

InitApi == ApiInit /\ ThrIdle /\ WinIdle /\ GpIdle /\ RpIdle /\ IoIdle /\ StIdle /\ RmIdle /\ RvIdle /\ PbIdle /\ LgIdle /\ RbIdle

SpecApi == InitApi /\ [][ApiNext]_vars

InitThreads == ThrInit /\ ApiIdle /\ WinIdle /\ GpIdle /\ RpIdle /\ IoIdle /\ StIdle /\ RmIdle /\ RvIdle /\ PbIdle /\ LgIdle /\ RbIdle

SpecThreads == InitThreads /\ [][ThrNext]_vars

InitWindow == WinInit /\ ApiIdle /\ ThrIdle /\ GpIdle /\ RpIdle /\ IoIdle /\ StIdle /\ RmIdle /\ RvIdle /\ PbIdle /\ LgIdle /\ RbIdle

SpecWindow == InitWindow /\ [][WinNext]_vars

InitPanel == GpInit /\ ApiIdle /\ ThrIdle /\ WinIdle /\ RpIdle /\ IoIdle /\ StIdle /\ RmIdle /\ RvIdle /\ PbIdle /\ LgIdle /\ RbIdle

SpecPanel == InitPanel /\ [][GpNext]_vars

InitRepoMenu == RpInit /\ ApiIdle /\ ThrIdle /\ WinIdle /\ GpIdle /\ IoIdle /\ StIdle /\ RmIdle /\ RvIdle /\ PbIdle /\ LgIdle /\ RbIdle

SpecRepoMenu == InitRepoMenu /\ [][RpNext]_vars

InitRequests == IoInit /\ ApiIdle /\ ThrIdle /\ WinIdle /\ GpIdle /\ RpIdle /\ StIdle /\ RmIdle /\ RvIdle /\ PbIdle /\ LgIdle /\ RbIdle

SpecRequests == InitRequests /\ [][IoNext]_vars

InitSettings == StInit /\ ApiIdle /\ ThrIdle /\ WinIdle /\ GpIdle /\ RpIdle /\ IoIdle /\ RmIdle /\ RvIdle /\ PbIdle /\ LgIdle /\ RbIdle

SpecSettings == InitSettings /\ [][StNext]_vars

InitRepos == RmInit /\ ApiIdle /\ ThrIdle /\ WinIdle /\ GpIdle /\ RpIdle /\ IoIdle /\ StIdle /\ RvIdle /\ PbIdle /\ LgIdle /\ RbIdle

SpecRepos == InitRepos /\ [][RmNext]_vars

InitLogs == RvInit /\ ApiIdle /\ ThrIdle /\ WinIdle /\ GpIdle /\ RpIdle /\ IoIdle /\ StIdle /\ RmIdle /\ PbIdle /\ LgIdle /\ RbIdle

SpecLogs == InitLogs /\ [][RvNext]_vars

InitPush == PbInit /\ ApiIdle /\ ThrInit /\ WinIdle /\ GpIdle /\ RpIdle /\ IoIdle /\ StIdle /\ RmIdle /\ RvIdle /\ LgIdle /\ RbIdle

SpecPush == InitPush /\ [][PbNext]_vars

\* the operating system runs a started thread, git answers, and the Qt event loop hands every
\* queued signal to its slot
SpecPushFair == SpecPush /\ WF_vars(PushThreadNext /\ UNCHANGED notPush) /\ WF_vars(deliver_signal /\ UNCHANGED notPush)

\* the panels that can issue a destructive command, one panel at a time: the panels share no
\* variable, so every value a panel's variables can take is reached while the others rest
DestructiveInit ==
    \/ GpInit /\ RpIdle /\ RvIdle /\ RmIdle
    \/ GpIdle /\ RpInit /\ RvIdle /\ RmIdle
    \/ GpIdle /\ RpIdle /\ RvInit /\ RmIdle
    \/ GpIdle /\ RpIdle /\ RvIdle /\ RmInit

DestructiveNext ==
    \/ RpIdle /\ RvIdle /\ RmIdle /\ GpNext
    \/ GpIdle /\ RvIdle /\ RmIdle /\ RpNext
    \/ GpIdle /\ RpIdle /\ RmIdle /\ RvNext
    \/ GpIdle /\ RpIdle /\ RvIdle /\ RmNext

InitDestructive == DestructiveInit /\ ApiIdle /\ ThrIdle /\ WinIdle /\ IoIdle /\ StIdle /\ PbIdle /\ LgIdle /\ RbIdle

SpecDestructive == InitDestructive /\ [][DestructiveNext]_vars

InitLogRefresh == LgInit /\ ApiIdle /\ ThrIdle /\ WinIdle /\ GpIdle /\ RpIdle /\ IoIdle /\ StIdle /\ RmIdle /\ RvIdle /\ PbIdle /\ RbIdle

SpecLogRefresh == InitLogRefresh /\ [][LgNext]_vars

InitRevertButton == RbInit /\ ApiIdle /\ ThrIdle /\ WinIdle /\ GpIdle /\ RpIdle /\ IoIdle /\ StIdle /\ RmIdle /\ RvIdle /\ PbIdle /\ LgIdle

SpecRevertButton == InitRevertButton /\ [][RbNext]_vars

(***************************************************************************)
(* Claims                                                                  *)
(***************************************************************************)

\* C1: no two stored API configurations have the same name, whatever sequence of
\* save_configuration and remove_config ran on a store that started with unique names.
C1_UniqueNames == UniqueNames(api_file.api_configs)

TerminalAt(q) == {i \in DOMAIN q : q[i].sig \in Terminal}

ResultSignals(kind) ==
    CASE kind = "GitLogThread" -> {"log_ready", "error_occurred"}
      [] kind = "GitLogsThread" -> {"logs_ready", "error_occurred"}
      [] kind = "GitPushThread" -> {"push_completed", "push_failed"}
      [] OTHER -> {}

\* C2: a worker thread's run never emits two result signals, a finished run has emitted
\* exactly one, of its own thread's kind, and it is the last signal: every progress_update
\* came before it.
C2_OneResultSignal ==
    /\ Cardinality(TerminalAt(thr_signals)) <= 1
    /\ \A i \in TerminalAt(thr_signals) : i = Len(thr_signals) /\ thr_signals[i].sig \in ResultSignals(thr_kind)
    /\ thr_pc = "finished" => Cardinality(TerminalAt(thr_signals)) = 1
    /\ TerminalAt(thr_signals) # {} => thr_pc = "finished"

\* a push run that reported progress three times over and then its result
C2_Witness ==
    /\ thr_kind = "GitPushThread" /\ thr_pc = "finished"
    /\ Len(thr_signals) = 5
    /\ thr_signals[5].sig = "push_completed"

\* C3: every read and write of RepoWindow's non-widget state happens on the UI thread.
C3_UiThreadOnly == \A f \in Fields : accessed[f] \subseteq {"ui"}

\* C3, the interleaving: the observer thread never writes modified_items while
\* on_item_expanded is in its loop reading it.
C3_NoWriteDuringExpand ==
    [][expand_todo # <<>> => modified_items' = modified_items]_vars

\* C4: no exception leaves a handler of the Git operations panel: a failure ends in a
\* dialog.
C4_NoExceptionLeavesHandler == ~gp_raised

\* push_repo_changes' git push raised, with "non-fast-forward" or "rejected" in the text
PushRejected ==
    /\ rp_run.handler = "push_repo_changes"
    /\ rp_run.failed = "push"
    /\ ("non-fast-forward" \in rp_run.msg \/ "rejected" \in rp_run.msg)

IsPrefix(a, b) == Len(a) <= Len(b) /\ \A i \in DOMAIN a : a[i] = b[i]

\* the Git commands that belong to a choice of the non-fast-forward dialog
OwnCommands(choice) ==
    CASE choice = "Force Push" -> <<"push --force-with-lease">>
      [] choice = "Pull & Merge" -> <<"pull --no-rebase", "push">>
      [] choice = "Pull & Rebase" -> <<"pull --rebase", "push">>
      [] OTHER -> <<>>

\* the non-fast-forward dialog was shown: its four buttons, and one of them picked
ResolutionOffered ==
    /\ rp_run.dlgs # <<>>
    /\ rp_run.dlgs[1].choices = {"Force Push", "Pull & Merge", "Pull & Rebase", "Cancel"}
    /\ rp_run.picks # <<>>
    /\ rp_run.picks[1] \in rp_run.dlgs[1].choices

\* what ran once the push had failed, and of that, what ran after the two commit counts
AfterPush == SubSeq(rp_run.cmds, 3, Len(rp_run.cmds))
AfterCounts == SubSeq(rp_run.cmds, 5, Len(rp_run.cmds))

ForceOnlyAfterYes ==
    (\E i \in DOMAIN rp_run.cmds : rp_run.cmds[i] = "push --force-with-lease")
        => Len(rp_run.picks) = 2 /\ rp_run.picks[2] = "Yes"

\* C5 as stated: whenever the push raises with "non-fast-forward" or "rejected" in the text,
\* the four choices are offered and after the failed push nothing runs but the chosen
\* strategy's own commands, none for cancel.
C5_AsStated ==
    PushRejected =>
        /\ ResolutionOffered
        /\ IsPrefix(AfterPush, OwnCommands(rp_run.picks[1]))
        /\ ForceOnlyAfterYes

\* C5: when the push raises with "non-fast-forward" or "rejected" in the text and without
\* "no upstream branch" in any case, two commit counts (git rev-list) run first; if one of
\* them fails, one warning is shown and nothing else runs; otherwise the four choices are
\* offered, and apart from one more rev-list under force push each choice runs only its own
\* commands: force, push --force-with-lease after a second Yes; merge, pull --no-rebase then
\* push; rebase, pull --rebase then push; cancel, nothing at all.
C5_ResolutionChoices ==
    (PushRejected /\ "no upstream branch" \notin {LowerOf(p) : p \in rp_run.msg}) =>
        /\ IsPrefix(<<"rev-list", "push", "rev-list">>, rp_run.cmds)
        /\ IF rp_run.dlgs[1].kind = "warning"
           THEN /\ Len(rp_run.dlgs) = 1
                /\ rp_run.picks = <<>>
                /\ IsPrefix(AfterPush, <<"rev-list", "rev-list">>)
           ELSE /\ ResolutionOffered
                /\ IsPrefix(<<"rev-list", "rev-list">>, AfterPush)
                /\ IsPrefix(SelectSeq(AfterCounts, LAMBDA c : c # "rev-list"),
                            OwnCommands(rp_run.picks[1]))
                /\ Len(SelectSeq(AfterCounts, LAMBDA c : c = "rev-list"))
                       <= (IF rp_run.picks[1] = "Force Push" THEN 1 ELSE 0)
                /\ ForceOnlyAfterYes
                /\ rp_run.picks[1] = "Cancel" => AfterCounts = <<>> /\ Len(rp_run.dlgs) = 1

\* a rejected push, Pull & Merge chosen, and both the pull and the second push went through
C5_Witness ==
    /\ PushRejected
    /\ rp_run.msg = {"rejected"}
    /\ rp_run.picks = <<"Pull & Merge">>
    /\ rp_run.cmds = <<"rev-list", "push", "rev-list", "rev-list", "pull --no-rebase", "push">>
    /\ rp_run.dlgs[Len(rp_run.dlgs)].kind = "information"

\* the last revert_commit was confirmed and its git revert failed
RevertFailed == gp_last.handler = "revert_commit" /\ gp_last.yes /\ ~gp_last.ok

\* the error text holds "conflict" in some case
ConflictInAnyCase(msg) == \E p \in msg : LowerOf(p) = "conflict"

\* what ran after the failed git revert
AfterRevert == Tail(gp_cmds)

\* C6: when revert_commit's git revert fails with a text holding CONFLICT (or conflict in
\* any case), the dialog offers resolve, skip, abort and cancel; skip runs git revert
\* --skip, abort runs git revert --abort, resolve runs no Git command and shows the
\* Continue Revert button, cancel does nothing. Any other failure shows one plain error
\* dialog carrying the text, and no choice.
C6_RevertConflictChoices ==
    RevertFailed =>
        IF ConflictInAnyCase(gp_last.msg)
        THEN /\ gp_cmds[1] = "revert --no-edit"
             /\ Len(gp_dialogs) >= 2
             /\ gp_dialogs[2].choices = {"Resolve Conflicts", "Skip Revert", "Abort Revert", "Cancel"}
             /\ gp_last.choice = "Skip Revert" =>
                    AfterRevert # <<>> /\ AfterRevert[1] = "revert --skip"
                        /\ \A i \in DOMAIN AfterRevert : AfterRevert[i] # "revert --abort"
             /\ gp_last.choice = "Abort Revert" =>
                    AfterRevert # <<>> /\ AfterRevert[1] = "revert --abort"
                        /\ \A i \in DOMAIN AfterRevert : AfterRevert[i] # "revert --skip"
             /\ gp_last.choice = "Resolve Conflicts" => AfterRevert = <<>> /\ continue_visible
             /\ gp_last.choice = "Cancel" => AfterRevert = <<>> /\ Len(gp_dialogs) = 2
        ELSE /\ Len(gp_dialogs) = 2
             /\ gp_dialogs[2].kind = "warning"
             /\ gp_dialogs[2].err = <<gp_last.msg>>
             /\ \A i \in DOMAIN gp_dialogs : gp_dialogs[i].choices \subseteq {"Yes", "No"}
             /\ \A i \in DOMAIN gp_cmds : gp_cmds[i] \notin {"revert --skip", "revert --abort"}

\* a revert that failed with "conflict" in lower case, the user chose skip, and it worked
C6_Witness ==
    /\ RevertFailed
    /\ gp_last.msg = {"conflict"}
    /\ gp_last.choice = "Skip Revert"
    /\ Len(gp_cmds) > 2
    /\ gp_cmds[2] = "revert --skip"
    /\ gp_dialogs[Len(gp_dialogs)].kind = "information"

\* test_connection was answered with status 403: by the first request, or by the request
\* repeated after an SSLError
Forbidden ==
    /\ io_run.handler = "test_connection"
    /\ io_run.answers # <<>>
    /\ (io_run.answers[1] = "403" \/ io_run.answers = <<"SSLError", "403">>)

SameUrl(i, j) == io_run.requests[i].url = io_run.requests[j].url

ConfiguredServer ==
    LET t == Strip(io_run.server)
        schemed == IF t # <<>> /\ t[1] \in {"http://", "https://"} THEN t ELSE <<"https://">> \o t
    IN RStrip(schemed, "/")

\* the request goes to this path on the configured server
GoesTo(r, path) == r.method = "GET" /\ r.url = ConfiguredServer \o path

UserOrRepos(r) ==
    \/ GoesTo(r, <<"/api/v1/user">>)
    \/ \E u \in {Strip(t) : t \in UsernameTexts} : GoesTo(r, <<"/api/v1/users/">> \o u \o <<"/repos">>)

\* C9 as stated: every request is a GET of /api/v1/user or /api/v1/users/{user}/repos on
\* the configured server.
C9_AsStated == \A i \in DOMAIN io_run.requests : UserOrRepos(io_run.requests[i])

\* C9: every request is a GET on the configured server, of /api/v1/user or
\* /api/v1/users/{user}/repos, or, in test_connection after a 403 to the first request, of
\* /api/v1/user/current or /api/v1/version.
C9_Endpoints ==
    \A i \in DOMAIN io_run.requests :
        \/ UserOrRepos(io_run.requests[i])
        \/ /\ io_run.handler = "test_connection"
           /\ i > 1
           /\ io_run.answers[1] = "403"
           /\ \/ GoesTo(io_run.requests[i], <<"/api/v1/user/current">>)
              \/ GoesTo(io_run.requests[i], <<"/api/v1/version">>)

\* test_connection went through all alternative endpoints and /api/v1/version answered 200
C9_Witness ==
    /\ io_run.handler = "test_connection"
    /\ Len(io_run.requests) = 4
    /\ GoesTo(io_run.requests[4], <<"/api/v1/version">>)
    /\ io_run.answers[4] = "200"
    /\ io_run.status = "Server connection successful"


\* one of the four saving handlers ran to its end (a reset: confirmed) and every save it made succeeded
SavedWithoutError ==
    /\ st_last.handler \in {"on_theme_changed", "on_fullscreen_toggled", "apply_settings", "reset_settings"}
    /\ st_last.handler = "reset_settings" => st_last.yes
    /\ ~st_last.io_error

\* C10: after on_theme_changed, on_fullscreen_toggled, apply_settings or a confirmed reset_settings
\* completes without an I/O error, the settings file holds exactly the panel's in-memory settings,
\* load_settings and load_settings_from_file return the same theme and start_fullscreen from that
\* file, and a confirmed reset leaves theme = 'light' and start_fullscreen = False.
C10_SavedWholesale ==
    SavedWithoutError =>
        /\ settings_file = JsonObject(panel_settings)
        /\ load_settings(settings_file).theme = load_settings_from_file(settings_file).theme
        /\ load_settings(settings_file).start_fullscreen
               = load_settings_from_file(settings_file).start_fullscreen
        /\ load_settings(settings_file) = panel_settings
        /\ main_settings = panel_settings
        /\ st_last.handler = "reset_settings" =>
               /\ panel_settings.theme = "light"
               /\ panel_settings.start_fullscreen = FALSE
               /\ DOMAIN panel_settings = {"start_fullscreen", "theme"}

\* a confirmed reset saved without error; a key the panel does not know was dropped by it
C10_Witness ==
    /\ SavedWithoutError
    /\ st_last.handler = "reset_settings"
    /\ settings_file = JsonObject([start_fullscreen |-> FALSE, theme |-> "light"])
    /\ theme_combo = 1
    /\ ~fullscreen_checkbox

\* the stored names are the directories of the base directory, and one repo_changed was emitted
ListedAndSignalled == load_repos(repo_storage) = base_dir /\ rm_last.emitted = 1

\* C11: after a successful add_repo, a confirmed remove_selected_repo or a download_selected that
\* cloned at least one repository, load_repos returns exactly the names of the directories in the
\* base directory and repo_changed was emitted once; a failed add_repo or a remove that raised
\* leaves the stored list unchanged.
C11_ListMatchesDirectories ==
    /\ rm_last.handler = "add_repo" /\ rm_last.result = "success" => ListedAndSignalled
    /\ rm_last.handler = "remove_selected_repo" /\ rm_last.result = "success" => ListedAndSignalled
    /\ rm_last.handler = "download_selected" /\ rm_last.result \in {"success", "escaped"}
           => ListedAndSignalled
    /\ rm_last.handler = "add_repo" /\ rm_last.result = "failed"
           => load_repos(repo_storage) = load_repos(rm_last.before)
    /\ rm_last.handler = "remove_selected_repo" /\ rm_last.result = "raised"
           => load_repos(repo_storage) = load_repos(rm_last.before)

\* what does hold: a handler that reports success has listed and signalled; any other ending emits
\* nothing and leaves the list file as it was unless the write of the list itself broke off
C11_WhenListWritten ==
    IF rm_last.result = "success" THEN ListedAndSignalled
    ELSE /\ rm_last.emitted = 0
         /\ rm_last.handler # "" => repo_storage \in {rm_last.before, BrokenFile}

\* C12: in on_item_clicked, when the previously open file has unsaved changes and the user answers
\* Yes to 'Save now?', the previous file is written with the edited text of its editor, it leaves
\* unsaved_items, and the clicked file is unchanged on disk; on No nothing is written.
C12_SaveNowKeepsEdits ==
    win_click.asked =>
        IF win_click.yes
        THEN /\ win_click.ok => win_click.holds_edits /\ ~win_click.still_unsaved
             /\ ~win_click.clicked_changed
        ELSE win_click.written = {}

\* what does hold: a click writes at most the previous file, and only after Yes
C12_OnlyAfterYes == win_click.written # {} => win_click.asked /\ win_click.yes /\ win_click.ok

\* the events of the last viewer handler
Happened(e) == \E i \in DOMAIN rv_last.trace : rv_last.trace[i] = e

\* a repository-level Safe Revert that was confirmed and whose checkout succeeded
SafeReverted ==
    /\ rv_last.handler = "safe_revert"
    /\ ~rv_file
    /\ rv_last.shown
    /\ Happened(Confirm("Safe Revert (Keep History)", TRUE))
    /\ Happened(GitCmd("checkout", TRUE))

\* C13: a confirmed repository-level Safe Revert moves only HEAD: no branch tip changes, HEAD
\* ends detached at the chosen commit, and once the viewer has reloaded, the commit list it
\* shows is the list it showed before the revert.
C13_SafeRevertKeepsList ==
    SafeReverted =>
        /\ rv_git.tips = rv_last.before.tips
        /\ rv_git.head = Detached
        /\ rv_git.at = rv_last.target
        /\ ~rv_loading => current_commits = rv_last.listed

\* what of C13 the viewer does keep: only HEAD moves, and it ends detached at the chosen commit
C13_MovesOnlyHead ==
    SafeReverted =>
        /\ rv_git.tips = rv_last.before.tips
        /\ rv_git.head = Detached
        /\ rv_git.at = rv_last.target
        /\ rv_git.status = rv_last.before.status

\* a revert button of the viewer was clicked on a selected commit and git status answered
RevertChecked ==
    /\ rv_last.handler \in {"safe_revert", "destructive_revert"}
    /\ rv_last.target # ""
    /\ Happened(GitCmd("status --porcelain", TRUE))

\* the last handler asked for the revert's confirmation (and so may have run its checkout or reset)
RevertAsked ==
    \E yes \in BOOLEAN :
        \/ Happened(Confirm("Safe Revert (Keep History)", yes))
        \/ Happened(Confirm("Destructive Revert (Delete History)", yes))

UnmergedDialogShown == \E choice \in UnmergedChoices : Happened(Ev("warning", "Unmerged Files Detected", choice))

\* C19: a revert of the logs viewer clicked while git status lists any unmerged path shows the
\* 'Unmerged Files Detected' dialog and returns without asking for the revert's confirmation,
\* so it never runs git checkout or git reset to the chosen commit.
C19_GatedOnAnyUnmergedPath ==
    RevertChecked /\ rv_last.before.status \cap UnmergedCodes # {} =>
        UnmergedDialogShown /\ ~RevertAsked

\* what of C19 the viewer does keep: the gate closes on the codes UU, AA and DD
C19_GatedOnCheckedCodes ==
    RevertChecked /\ rv_last.before.status \cap CheckedCodes # {} =>
        UnmergedDialogShown /\ ~RevertAsked

\* the last dialog of the last menu handler
LastDialog == rp_run.dlgs[Len(rp_run.dlgs)]

\* pull_repo_changes found uncommitted changes, the user agreed to stash them and git stash succeeded
StashedForPull ==
    /\ rp_run.handler = "pull_repo_changes"
    /\ rp_before.g.dirty
    /\ rp_run.picks # <<>> /\ rp_run.picks[1] = "Yes"
    /\ rp_run.cmds # <<>> /\ rp_run.cmds[1] = "stash"
    /\ ~(rp_run.cmds = <<"stash">> /\ LastDialog.title = "Failed to pull changes")

\* the flow ended with the stash popped, or with the user told that the changes remain in the stash
PoppedOrTold ==
    \/ rp_run.g.dirty /\ LastDialog = Information("stashed changes restored")
    \/ LastDialog = Information("remain in stash")

\* C15: if the user agreed to stash uncommitted changes, then on every way the pull flow ends the
\* stash has been popped or the user has been told that the changes remain in the stash.
C15_StashPoppedOrTold == StashedForPull => PoppedOrTold

\* what of C15 the flow does keep: once it has come to git stash pop, the changes are back or
\* the user is told that they remain in the stash
C15_WhenPopTried ==
    StashedForPull /\ (\E i \in DOMAIN rp_run.cmds : rp_run.cmds[i] = "stash pop") => PoppedOrTold

\* 'Push to Server' was chosen on a branch that the handler before it had taken back by one
\* commit with git reset --hard HEAD~1, so that origin/<branch> holds a commit the branch lacks
PushedAfterReset ==
    /\ rp_run.handler = "push_repo_changes"
    /\ rp_before.moved
    /\ rp_before.g.head \in rp_before.g.remotes
    /\ rp_before.g.behind > 0
    /\ rp_run.failed \notin {"Repo", "rev-list"}

NffDialogShown ==
    \E i \in DOMAIN rp_run.dlgs : rp_run.dlgs[i].title = "Non-Fast-Forward Push - Choose Resolution"

\* C16: when a revert or reset has moved the local branch behind or away from origin/<branch>,
\* 'Push to Server' leads to the non-fast-forward resolution dialog.
C16_PushOffersResolution == PushedAfterReset => NffDialogShown

\* what of C16 the push does keep: with commits of its own to push and a push that git rejects
\* as non-fast-forward, the handler goes to handle_non_fast_forward_push
C16_WhenAheadAndRejected ==
    /\ PushedAfterReset
    /\ rp_before.g.ahead > 0
    /\ rp_run.failed = "push"
    /\ rp_run.msg \in {{"non-fast-forward"}, {"rejected"}}
    => \/ NffDialogShown
       \/ rp_run.dlgs[1].title = "Failed to handle non-fast-forward push"

\* 'Push to Server' was chosen while HEAD was detached, and the repository could be opened
DetachedPush ==
    /\ rp_run.handler = "push_repo_changes"
    /\ rp_before.g.head = Detached
    /\ rp_run.failed # "Repo"

\* 'Switch to <default>' was chosen with a clean working tree
SwitchedClean == rp_run.picks = <<"Switch">> /\ ~rp_before.g.dirty

\* the default branch as C17 words it
ClaimedDefault(g) ==
    IF "main" \in g.remotes \cup g.branches THEN "main"
    ELSE IF "master" \in g.remotes \cup g.branches THEN "master"
    ELSE FirstListed(g.branches)

\* C17: while HEAD is detached, push_repo_changes shows the detached-HEAD dialog and pushes
\* nothing itself; Cancel changes nothing; 'Switch to <default>' with a clean working tree leaves
\* HEAD attached to the default branch, which is main if origin/main or a local main exists,
\* otherwise master, otherwise the first local branch.
C17_DetachedPushSwitches ==
    DetachedPush =>
        /\ rp_run.dlgs[1].title = "Detached HEAD State"
        /\ rp_run.cmds # <<>> => rp_run.cmds[1] # "push"
        /\ rp_run.picks = <<"Cancel">> => rp_run.cmds = <<>> /\ rp_run.g = rp_before.g
        /\ SwitchedClean /\ rp_before.g.branches # {} =>
               /\ rp_run.default = ClaimedDefault(rp_before.g)
               /\ LastDialog = Information("Switched") => rp_run.g.head = rp_run.default

\* what of C17 the handler does keep: the dialog comes before any command, Cancel changes
\* nothing, origin's refs are asked before the local branches, and a switch whose checkout
\* succeeds leaves HEAD attached to the branch the dialog named
C17_DialogFirstRemoteFirst ==
    DetachedPush =>
        /\ rp_run.dlgs[1].title = "Detached HEAD State"
        /\ rp_run.cmds # <<>> => rp_run.cmds[1] # "push"
        /\ rp_run.picks = <<"Cancel">> => rp_run.cmds = <<>> /\ rp_run.g = rp_before.g
        /\ "main" \in rp_before.g.remotes => rp_run.default = "main"
        /\ "main" \notin rp_before.g.remotes /\ "master" \in rp_before.g.remotes => rp_run.default = "master"
        /\ SwitchedClean /\ LastDialog = Information("Switched") => rp_run.g.head = rp_run.default

\* 'Create New Branch' or 'Create & Switch Branch' was chosen in the detached-HEAD dialog
CreateChosen ==
    /\ DetachedPush
    /\ rp_run.picks # <<>>
    /\ rp_run.picks[1] \in {"Create New Branch", "Create & Switch Branch"}

\* C18: from the detached-HEAD dialog, 'Create New Branch' and 'Create & Switch Branch' prompt
\* for a name; a non-empty name creates the branch at the current commit and leaves HEAD attached
\* to it ('Create New Branch' also pushes it to origin), an empty name or a cancelled prompt
\* creates no branch and leaves HEAD detached.
C18_CreatesNamedBranch ==
    CreateChosen =>
        /\ Len(rp_run.dlgs) >= 2 /\ rp_run.dlgs[2].kind = "input"
        /\ Len(rp_run.picks) = 3 /\ LastDialog.kind = "information" =>
               /\ rp_run.g.branches = rp_before.g.branches \cup {rp_run.picks[3]}
               /\ rp_run.g.head = rp_run.picks[3]
               /\ rp_run.picks[1] = "Create New Branch" => rp_run.picks[3] \in rp_run.g.remotes
        /\ Len(rp_run.picks) = 2 => rp_run.g = rp_before.g

\* what the two handlers do instead: no prompt, no command, the repository as it was, and the
\* NameError in a warning
C18_NameErrorShown ==
    CreateChosen =>
        /\ rp_run.cmds = <<>>
        /\ rp_run.g = rp_before.g
        /\ Len(rp_run.dlgs) = 2 /\ LastDialog.kind = "warning" /\ LastDialog.err = <<NameError>>

\* a push was started and its push_completed or push_failed has not been handled yet
PushInFlight ==
    /\ thr_kind = "GitPushThread"
    /\ thr_pc # "finished" \/ pb_seen < Len(thr_signals)

\* the button is enabled again with its label, and the progress bar is hidden
PushRestored == push_btn_enabled /\ push_btn_text = PushLabel /\ ~push_progress_visible

\* C20: from the start of a push until push_completed or push_failed has been handled the Push
\* button is disabled and at most one GitPushThread is running; every started push eventually
\* re-enables the button, restores its label and hides the progress bar; push_changes with no
\* remote or no branch selected starts no thread and leaves the button enabled.
C20_PushButton ==
    /\ [](PushInFlight => ~push_btn_enabled /\ pb_running <= 1)
    /\ [](pb_last.handler = "push_changes" /\ (pb_last.remote = "" \/ pb_last.branch = "")
              => ~pb_last.started /\ pb_running = 0 /\ push_btn_enabled)
    /\ (PushInFlight ~> PushRestored)

\* a push ran to its end, its last signal was handled and the button is back
C20_Witness ==
    /\ thr_kind = "GitPushThread" /\ thr_pc = "finished" /\ pb_seen = Len(thr_signals)
    /\ pb_last.handler \in {"push_completed", "push_failed"}
    /\ PushRestored /\ pb_running = 0

\* the commands C14 calls destructive, by the names the model gives them
DestructiveCmds == {"reset --hard", "push --force-with-lease", "checkout --", "unlink", "rmtree"}

\* the confirmations that stand before them
ConfirmTitles ==
    {"Force Push Warning", "DANGER: Overwrite Local Changes", "Reset Repository",
     "Destructive Revert (Delete History)", "Reverse Repository Destructive",
     "Safe Revert File (Keep History)", "Destructive Revert File (Delete History)",
     "Remove File", "Remove Folder"}

\* GitOperationsPanel: the destructive command is the handler's first command, after its question
PanelAsksFirst ==
    /\ \A i \in DOMAIN gp_cmds :
           gp_cmds[i] \in DestructiveCmds =>
               /\ i = 1
               /\ gp_last.yes
               /\ gp_dialogs # <<>> /\ gp_dialogs[1].kind = "question"
    /\ gp_last.handler \in {"reset_repo", "revert_file"} /\ ~gp_last.yes =>
           \A i \in DOMAIN gp_cmds : gp_cmds[i] \notin DestructiveCmds

\* the dialogs of the last menu handler that had buttons to pick from
MenuAsked == SelectSeq(rp_run.dlgs, LAMBDA d : d.choices # {})

\* RepoWindow's menu: the last dialog with buttons is the command's confirmation, answered Yes
MenuAsksLast ==
    LET ran == \E i \in DOMAIN rp_run.cmds : rp_run.cmds[i] \in DestructiveCmds
        confirming == /\ MenuAsked # <<>>
                      /\ MenuAsked[Len(MenuAsked)].kind = "question"
                      /\ MenuAsked[Len(MenuAsked)].title \in ConfirmTitles
                      /\ rp_run.picks # <<>>
    IN /\ ran => confirming /\ rp_run.picks[Len(rp_run.picks)] = "Yes"
       /\ confirming /\ rp_run.picks[Len(rp_run.picks)] = "No" => ~ran

\* GitLogsViewer: the event before the command is its question, answered Yes
ViewerAsksJustBefore ==
    /\ \A i \in DOMAIN rv_last.trace :
           rv_last.trace[i].kind = "git" /\ rv_last.trace[i].name \in DestructiveCmds =>
               /\ i > 1
               /\ rv_last.trace[i - 1].kind = "question"
               /\ rv_last.trace[i - 1].answer = "Yes"
    /\ (\E i \in DOMAIN rv_last.trace : rv_last.trace[i].kind = "question" /\ rv_last.trace[i].answer = "No")
           => \A i \in DOMAIN rv_last.trace : rv_last.trace[i].name \notin DestructiveCmds

\* AddRepoPanel: rmtree only after 'Confirm Removal' was answered Yes
RemovalAsks ==
    /\ rm_last.rmtree => rm_last.answer = "Yes"
    /\ rm_last.answer = "No" => ~rm_last.rmtree /\ rm_last.result = "declined"

\* C14: no destructive command runs without an explicit Yes: every git reset --hard, git push
\* --force-with-lease, git checkout -- <file>, unlink and rmtree of a handler invocation comes
\* after a confirmation of that invocation which the user answered Yes, with no other dialog in
\* between; after No none of them is issued.
C14_NoDestructiveWithoutYes == PanelAsksFirst /\ MenuAsksLast /\ ViewerAsksJustBefore /\ RemovalAsks

\* 'Overwrite Local' was chosen for a pull, confirmed, and its reset ran
C14_Witness ==
    /\ rp_run.handler = "pull_repo_changes"
    /\ rp_run.picks = <<"Overwrite Local", "Yes">>
    /\ \E i \in DOMAIN rp_run.cmds : rp_run.cmds[i] = "reset --hard"
    /\ rp_run.g.behind = 0 /\ rp_run.g.ahead = 0

\* every thread has returned and every queued signal has reached its slot
LogQuiet ==
    /\ ~lg_crashed
    /\ lg_threads # <<>>
    /\ \A i \in DOMAIN lg_threads : lg_threads[i].pc = "finished"
    /\ lg_events = <<>>

LatestLog == lg_threads[Len(lg_threads)]

\* C21: when several log refreshes are requested in a row and their threads finish in any
\* order, the list finally displayed is the result of the most recently requested refresh, and
\* the result of an earlier request never replaces that of a later one.
C21_LatestRefreshWins ==
    /\ LogQuiet /\ LatestLog.sig = "log_ready" => log_display = LatestLog.commits
    /\ lg_shown # 0 /\ lg_before > lg_shown => log_display = lg_threads[lg_before].commits

\* C21, as the code has it: the latest request's result is the one displayed whenever no
\* refresh was requested while an earlier one was still on its way to the display.
C21_WinsWithoutOverlap ==
    /\ LogQuiet /\ LatestLog.sig = "log_ready" /\ ~lg_overlap => log_display = LatestLog.commits
    /\ ~lg_overlap => lg_before <= lg_shown \/ lg_shown = 0

\* three refreshes one after the other, each displayed before the next was requested
C21_Witness ==
    /\ LogQuiet
    /\ ~lg_overlap
    /\ Len(lg_threads) = MaxRefreshes
    /\ lg_shown = MaxRefreshes
    /\ lg_before = MaxRefreshes - 1
    /\ log_display # <<>>
    /\ log_display # lg_threads[lg_before].commits

\* C22: in GitOperationsPanel the 'Continue Revert' button is visible exactly while a conflicted
\* revert of the current repository awaits continuation: hidden at first, visible only after a
\* conflict answered 'Resolve Conflicts', and hidden again once that revert is over, by
\* continue_revert, skip_revert, abort_revert, a reset, or set_repo to another repository.
C22_ContinueVisibleWhileAwaiting == continue_visible <=> rb_revert = "awaiting"

\* C22, as the code has it: the button is visible while a revert awaits continuation, and it
\* is hidden by continue_revert, skip_revert and abort_revert when they succeed.
C22_VisibleWhenAwaiting ==
    /\ rb_revert = "awaiting" => continue_visible
    /\ gp_last.handler = "continue_revert" /\ gp_last.ok => ~continue_visible
    /\ gp_last.handler = "revert_commit" /\ gp_last.choice \in {"Skip Revert", "Abort Revert"}
           /\ rb_revert = "none" => ~continue_visible

\* a reset ended the revert that awaited continuation, and the button is still there
C22_ResetLeavesButton ==
    /\ gp_last.handler = "reset_repo"
    /\ gp_last.choice = "hard"
    /\ rb_revert = "none"
    /\ continue_visible

\* the configuration the migration makes of an old file
DefaultServer(f) == Config(<<"Default Server">>, f.server_url, f.token)

\* load_api_settings on the file as it is: what it returns and what it leaves on disk
LoadsOnce ==
    LET data == load_api_settings_data(api_file)
        file == load_api_settings_file(api_file)
    IN /\ NeedsMigration(api_file) => data.api_configs = <<DefaultServer(api_file)>> /\ file = data
       /\ load_api_settings_data(file) = data
       /\ load_api_settings_file(file) = file
       /\ ~api_file.exists => data.api_configs = <<>> /\ file = api_file

\* remove_config, confirmed, has just removed the selected configuration
RemovedNow == current_config # <<>> /\ current_config' = <<>> /\ api_dialog' = "Confirm Removal"

====
